---- MODULE Spec2Model ----
(***************************************************************************)
(* Model of the content-moderation service of the Edel-SocialApp API       *)
(* (app/services/moderation_service.py): the ModerationService singleton,  *)
(* its four text checkers, its image checker, and the two aggregators      *)
(* moderate_content and moderate_image.                                    *)
(*                                                                         *)
(* One moderation call is a small process: `pc' is the place in the        *)
(* aggregator's code, each checker step performs the checker's single HTTP *)
(* request (the vendor's answer is drawn from a set of HTTP outcomes) and  *)
(* applies the checker's parsing code to it.                               *)
(*                                                                         *)
(* Scores of the image vendor are probabilities in [0,1]; the model counts *)
(* them in tenths, so the threshold 0.5 is 5.                              *)
(*                                                                         *)
(* Around the service stand the handlers that use it and the stores they   *)
(* write: create_post and create_post_with_image (app/routers/posts.py),   *)
(* logout (app/routers/auth.py), like_post and unlike_post                 *)
(* (app/routers/likes.py). A handler is a process whose steps are its      *)
(* calls to the moderation service, to Storage and to Firestore. Four      *)
(* specifications share the variables: Spec (one moderation call),         *)
(* SpecApi (post creation), SpecConcurrent (two moderation calls at once), *)
(* SpecLikes (like requests served by two workers).                        *)
(*                                                                         *)
(* The other routers are served by the same server processes, each with    *)
(* its own token_blacklist, against the one Firestore database:            *)
(* SpecReports (app/routers/reports.py), SpecComments                      *)
(* (app/routers/comments.py), SpecDelete (delete_post and the two readers  *)
(* of posts) and SpecAccount (login, logout, delete_account and            *)
(* create_post while the clock advances and processes restart).            *)
(***************************************************************************)
EXTENDS Integers, Sequences, FiniteSets, TLC

VARIABLES
    settings,    \* app.config.settings: the four moderation credentials
    service,     \* the ModerationService instance: its *_enabled attributes
    op,          \* the aggregator being executed: "none", "moderate_content", "moderate_image"
    pc,          \* position inside the aggregator
    flagged_by,  \* local list flagged_by of the running call
    reason,      \* local variable reason of the running call (Optional[str])
    calls,       \* checker methods invoked by the running call, in invocation order
    ret,         \* what each checker method returned to the running call
    http,        \* outcome of the most recent HTTP request of the running call
    caught,      \* checker methods whose except clause ran in the running call
    verdict,     \* the ModerationResult returned by the call
    token_blacklist, \* app.utils.auth_utils.token_blacklist
    users,       \* Firestore collection users: the uids that have a document
    posts,       \* Firestore collection posts: the post documents
    blobs,       \* Firebase Storage bucket: the URLs of the stored images
    request,     \* the post-creation request being served, its inputs
    hpc,         \* position inside the post-creation handler
    locals,      \* local variables of the post-creation handler
    events,      \* what the handler did to its services so far, in order
    response,    \* HTTP status the handler answered with (0: none yet)
    uuids,       \* number of uuid4 values drawn so far (each one is new)
    served,      \* number of requests accepted so far
    callers,     \* concurrent calls of the moderation service: op, pc, answers, verdict
    frames,      \* the local variables flagged_by and reason of each concurrent call
    likes,       \* Firestore collection likes: the like documents
    workers,     \* the like_post / unlike_post requests in flight, one per worker
    reports,     \* Firestore collection reports: the report documents
    comments,    \* Firestore collection comments: the comment documents
    admins,      \* the uids whose users document has is_admin true
    agents,      \* the other requests in flight, one per server process
    blacklists,  \* token_blacklist of each server process
    clock,       \* hours elapsed since the service started
    issued,      \* the tokens login issued, each with the hour of its issue
    history      \* the logout and delete_account calls that returned successfully

\* State of one call of the moderation service.
moderation_vars ==
    <<settings, service, op, pc, flagged_by, reason, calls, ret, http, caught, verdict>>

\* State of the post-creation handlers and of the stores they use.
posts_vars ==
    <<token_blacklist, users, posts, blobs, request, hpc, locals, events, response, uuids,
      served>>

\* State of the moderation calls made side by side.
concurrent_vars == <<callers, frames>>

\* State of the like handlers and of the likes collection.
likes_vars == <<likes, workers>>

\* State of the report, comment, account and post-deletion handlers.
community_vars == <<reports, comments, admins, agents, blacklists, clock, issued, history>>

\* What a single call of the moderation service leaves alone.
outside_moderation == <<posts_vars, concurrent_vars, likes_vars, community_vars>>

\* What the post-creation handlers leave alone.
outside_posts == <<moderation_vars, concurrent_vars, likes_vars, community_vars>>

vars == <<moderation_vars, posts_vars, concurrent_vars, likes_vars, community_vars>>

----------------------------------------------------------------------------
(* Python values *)

\* Optional[str]: None, or a string (possibly empty).
NoneStr == [some |-> FALSE, s |-> ""]
Str(s) == [some |-> TRUE, s |-> s]

\* Truthiness of an Optional[str]: None and "" are falsy.
Truthy(o) == o.some /\ o.s # ""

\* Result of running a block of code: a returned value or a raised exception.
Return(v) == [raised |-> FALSE, value |-> v, caught |-> FALSE]
Raise == [raised |-> TRUE, value |-> FALSE, caught |-> FALSE]

\* A value returned by an except clause.
Caught(v) == [raised |-> FALSE, value |-> v, caught |-> TRUE]

Range(seq) == {seq[i] : i \in 1..Len(seq)}

----------------------------------------------------------------------------
(* Configuration: Settings and ModerationService.__init__ *)

\* Values a credential can take: unset (None), set to the empty string, set.
KeyValues == {NoneStr, Str(""), Str("key")}

Settings ==
    [moderatecontent_api_key : KeyValues,
     openai_api_key : KeyValues,
     sightengine_api_user : KeyValues,
     sightengine_api_secret : KeyValues]

\* A buggy constructor: Sightengine enabled as soon as the API user is set.
ModerationService_init_user_only(s) ==
    [moderatecontent_enabled |-> Truthy(s.moderatecontent_api_key),
     openai_enabled |-> Truthy(s.openai_api_key),
     sightengine_enabled |-> Truthy(s.sightengine_api_user),
     purgomalum_enabled |-> TRUE]

\* ModerationService.__init__: the enablement flags, by truthiness.
ModerationService_init(s) ==
    [moderatecontent_enabled |-> Truthy(s.moderatecontent_api_key),
     openai_enabled |-> Truthy(s.openai_api_key),
     sightengine_enabled |-> Truthy(s.sightengine_api_user)
                             /\ Truthy(s.sightengine_api_secret),
     purgomalum_enabled |-> TRUE]

----------------------------------------------------------------------------
(* HTTP outcomes *)

HTTP_OK == 200

\* Statuses other than 200 a vendor may answer with (204 is 2xx but not 200).
OtherStatuses == {204, 404, 500}

\* requests raises these (both are subclasses of Exception).
HttpExceptions == {"ConnectionError", "Timeout"}

\* JSON values are written as tokens. "<missing>" marks an absent key,
\* "<invalid>" a body that is not JSON, "{...}" an object whose members the
\* other fields of the body describe, "[...]" a non-empty list.
Missing == "<missing>"
Invalid == "<invalid>"
Obj == "{...}"
FalsyTokens == {"null", "false", "0", "\"\"", "[]", "{}"}
ScalarTokens == {"null", "true", "false", "0", "1", "\"\"", "\"false\""}

\* bool(x) of a parsed JSON value.
TruthyJson(tok) == tok \notin FalsyTokens

\* isinstance(x, dict) of a parsed JSON value.
IsDict(tok) == tok \in {"{}", Obj}

NoJson == [top |-> "<none>"]
NoHttp == [kind |-> "none", status |-> 0, text |-> <<>>, json |-> NoJson]
Exception(e) == [kind |-> e, status |-> 0, text |-> <<>>, json |-> NoJson]
TextResponse(st, t) == [kind |-> "response", status |-> st, text |-> t, json |-> NoJson]
JsonResponse(st, j) == [kind |-> "response", status |-> st, text |-> <<>>, json |-> j]

Failures == {Exception(e) : e \in HttpExceptions}
               \cup {TextResponse(st, <<>>) : st \in OtherStatuses}

----------------------------------------------------------------------------
(* _check_purgomalum: GET containsprofanity, the body is a plain string *)

\* str.lower() on the characters the bodies below are made of.
LowerChar(c) ==
    CASE c = "T" -> "t" [] c = "R" -> "r" [] c = "U" -> "u" [] c = "E" -> "e"
      [] OTHER -> c

Lower(t) == [i \in 1..Len(t) |-> LowerChar(t[i])]

Whitespace == {" ", "\n", "\t", "\r"}

RECURSIVE LStrip(_)
LStrip(t) == IF t # <<>> /\ Head(t) \in Whitespace THEN LStrip(Tail(t)) ELSE t

RECURSIVE RStrip(_)
RStrip(t) ==
    IF t # <<>> /\ t[Len(t)] \in Whitespace THEN RStrip(SubSeq(t, 1, Len(t) - 1)) ELSE t

\* str.strip()
Strip(t) == RStrip(LStrip(t))

TrueText == <<"t", "r", "u", "e">>
FalseText == <<"f", "a", "l", "s", "e">>

PurgomalumBodies ==
    {TrueText, FalseText,
     <<" ", "T", "r", "u", "e", "\n">>,
     <<"T", "R", "U", "E">>,
     <<"f", "a", "l", "s", "e", "\n">>,
     <<>>,
     <<"t", "r", "u", "e", "!">>,
     <<"<", "h", "t", "m", "l", ">">>}

PurgomalumHttp ==
    Failures \cup {TextResponse(HTTP_OK, b) : b \in PurgomalumBodies}
             \cup {TextResponse(st, TrueText) : st \in OtherStatuses}

\* The try block of _check_purgomalum.
check_purgomalum_try(h) ==
    IF h.kind # "response" THEN Raise
    ELSE IF h.status = HTTP_OK
         THEN LET contains_profanity == Strip(Lower(h.text)) = TrueText
              IN  Return(~contains_profanity)
         ELSE Return(TRUE)

\* A buggy checker: no except clause, the exception leaves the method.
check_purgomalum_no_except(h) == check_purgomalum_try(h)

\* _check_purgomalum: the try block, and True on any Exception.
check_purgomalum(h) ==
    LET r == check_purgomalum_try(h) IN IF r.raised THEN Caught(TRUE) ELSE r

----------------------------------------------------------------------------
(* _check_moderatecontent: POST, JSON body with a "rating" *)

ModeratecontentJson(top, rating) == [top |-> top, rating |-> rating]

ModeratecontentBodies ==
    {ModeratecontentJson(top, Missing) : top \in {Invalid, "[]", "null", "\"error\"", "{}"}}
      \cup {ModeratecontentJson(Obj, r) :
              r \in {"\"safe\"", "\"adult\"", "\"teen\"", "null", "0", "[]"}}

ModeratecontentHttp ==
    Failures \cup {JsonResponse(HTTP_OK, b) : b \in ModeratecontentBodies}
             \cup {JsonResponse(st, ModeratecontentJson(Obj, "\"adult\"")) :
                     st \in OtherStatuses}

\* The try block of _check_moderatecontent (after the enabled guard).
check_moderatecontent_try(h) ==
    IF h.kind # "response" THEN Raise
    ELSE IF h.status = HTTP_OK
         THEN IF h.json.top = Invalid THEN Raise          \* response.json() raises
              ELSE IF ~IsDict(h.json.top) THEN Raise       \* no attribute get
              ELSE LET rating == IF h.json.rating = Missing
                                 THEN "\"safe\"" ELSE h.json.rating
                   IN  Return(rating = "\"safe\"")
         ELSE Return(TRUE)

check_moderatecontent(enabled, h) ==
    IF ~enabled THEN Return(TRUE)
    ELSE LET r == check_moderatecontent_try(h) IN IF r.raised THEN Caught(TRUE) ELSE r

----------------------------------------------------------------------------
(* _check_openai_moderation: POST, JSON body {"results": [{"flagged": ...}]} *)

\* results: the value of "results"; first: results[0] when results is a
\* non-empty list; flagged: first["flagged"] when first is an object.
OpenaiJson(top, results, first, flagged) ==
    [top |-> top, results |-> results, first |-> first, flagged |-> flagged]

OpenaiBodies ==
    {OpenaiJson(top, Missing, Missing, Missing) : top \in {Invalid, "[]", "null", "{}"}}
      \cup {OpenaiJson(Obj, r, Missing, Missing) :
              r \in {Missing, "null", "[]", "{}", Obj, "1", "\"error\""}}
      \cup {OpenaiJson(Obj, "[...]", f, Missing) : f \in {"null", "\"x\"", "[]", "{}"}}
      \cup {OpenaiJson(Obj, "[...]", Obj, f) : f \in {Missing} \cup ScalarTokens}

OpenaiHttp ==
    Failures \cup {JsonResponse(HTTP_OK, b) : b \in OpenaiBodies}
             \cup {JsonResponse(st, OpenaiJson(Obj, "[...]", Obj, "true")) :
                     st \in OtherStatuses}

\* The try block of _check_openai_moderation (after the enabled guard).
check_openai_moderation_try(h) ==
    IF h.kind # "response" THEN Raise
    ELSE IF h.status = HTTP_OK
         THEN IF h.json.top = Invalid THEN Raise
              ELSE IF ~IsDict(h.json.top) THEN Raise
              ELSE IF h.json.results = Missing \/ ~TruthyJson(h.json.results)
                   THEN Return(TRUE)
              \* len() of a number raises; [0] of a dict or of a string's
              \* character has no usable get
              ELSE IF h.json.results # "[...]" THEN Raise
              ELSE IF ~IsDict(h.json.first) THEN Raise
              ELSE LET flagged == IF h.json.flagged = Missing
                                  THEN "false" ELSE h.json.flagged
                   IN  Return(~TruthyJson(flagged))
         ELSE Return(TRUE)

check_openai_moderation(enabled, h) ==
    IF ~enabled THEN Return(TRUE)
    ELSE LET r == check_openai_moderation_try(h) IN IF r.raised THEN Caught(TRUE) ELSE r

----------------------------------------------------------------------------
(* _check_sightengine_text: GET, JSON body with profanity.matches *)

SightengineTextJson(top, profanity, matches, personal) ==
    [top |-> top, profanity |-> profanity, matches |-> matches, personal |-> personal]

SightengineTextBodies ==
    {SightengineTextJson(top, Missing, Missing, Missing) :
        top \in {Invalid, "[]", "null", "{}"}}
      \cup {SightengineTextJson(Obj, p, Missing, q) :
              p \in {Missing, "{}", "null", "[]"}, q \in {Missing, Obj, "null"}}
      \cup {SightengineTextJson(Obj, Obj, m, q) :
              m \in {Missing, "[]", "[...]", "null", "1", "\"none\"", "{}"},
              q \in {Missing, Obj, "null"}}

SightengineTextHttp ==
    Failures \cup {JsonResponse(HTTP_OK, b) : b \in SightengineTextBodies}
             \cup {JsonResponse(st, SightengineTextJson(Obj, Obj, "[...]", Missing)) :
                     st \in OtherStatuses}

\* The try block of _check_sightengine_text (after the enabled guard).
check_sightengine_text_try(h) ==
    IF h.kind # "response" THEN Raise
    ELSE IF h.status = HTTP_OK
         THEN IF h.json.top = Invalid THEN Raise
              ELSE IF ~IsDict(h.json.top) THEN Raise
              ELSE LET profanity == IF h.json.profanity = Missing
                                    THEN "{}" ELSE h.json.profanity
                       matches == IF h.json.matches = Missing THEN "[]" ELSE h.json.matches
                       personal == IF h.json.personal = Missing
                                   THEN "{}" ELSE h.json.personal
                   IN  IF ~IsDict(profanity) THEN Raise
                       ELSE IF TruthyJson(matches) THEN Return(FALSE)
                       ELSE IF ~IsDict(personal) THEN Raise
                       ELSE Return(TRUE)
         ELSE Return(TRUE)

check_sightengine_text(enabled, h) ==
    IF ~enabled THEN Return(TRUE)
    ELSE LET r == check_sightengine_text_try(h) IN IF r.raised THEN Caught(TRUE) ELSE r

----------------------------------------------------------------------------
(* _check_sightengine_image: GET, JSON body with per-category scores *)

\* Thresholds of the four categories, in tenths.
SEXUAL_THRESHOLD == 5
WEAPON_THRESHOLD == 7
OFFENSIVE_THRESHOLD == 6
GORE_THRESHOLD == 5

\* How far around its threshold a category's score ranges in the model.
MaxDelta == 1

\* The value found under a score key: a number (in tenths), nothing, or a
\* JSON value of another type.
Num(n) == [t |-> "number", n |-> n]
MissingScore == [t |-> Missing, n |-> 0]
IllTyped(t) == [t |-> t, n |-> 0]
IllTypedScores == {IllTyped("string"), IllTyped("null"), IllTyped("true")}

Scores(threshold) ==
    {MissingScore} \cup {Num(n) : n \in (threshold - MaxDelta)..(threshold + MaxDelta)}

SightengineImageJson(top, nudity, sa, sd, weapon, offensive, op_, gore, gp) ==
    [top |-> top, nudity |-> nudity, sexual_activity |-> sa, sexual_display |-> sd,
     weapon |-> weapon, offensive |-> offensive, offensive_prob |-> op_,
     gore |-> gore, gore_prob |-> gp]

\* Well-typed bodies: every combination of scores.
SightengineImageScored ==
    {SightengineImageJson(Obj, Obj, sa, sd, w, Obj, o, Obj, g) :
        sa \in Scores(SEXUAL_THRESHOLD), sd \in Scores(SEXUAL_THRESHOLD),
        w \in Scores(WEAPON_THRESHOLD), o \in Scores(OFFENSIVE_THRESHOLD),
        g \in Scores(GORE_THRESHOLD)}

EmptyImageJson(top) ==
    SightengineImageJson(top, Missing, MissingScore, MissingScore, MissingScore,
                         Missing, MissingScore, Missing, MissingScore)

\* Bodies that are not JSON, not an object, or hold a value of the wrong type.
SightengineImageIllTyped ==
    {EmptyImageJson(top) : top \in {Invalid, "[]", "null", "{}"}}
      \cup {[EmptyImageJson(Obj) EXCEPT ![k] = c] :
              k \in {"nudity", "offensive", "gore"}, c \in {"null", "[]"}}
      \cup {[EmptyImageJson(Obj) EXCEPT ![k] = Obj, ![f] = v] :
              k \in {"nudity"}, f \in {"sexual_activity", "sexual_display"},
              v \in IllTypedScores}
      \cup {[EmptyImageJson(Obj) EXCEPT !.weapon = v] : v \in IllTypedScores}
      \cup {[EmptyImageJson(Obj) EXCEPT !.offensive = Obj, !.offensive_prob = v] :
              v \in IllTypedScores}
      \cup {[EmptyImageJson(Obj) EXCEPT !.gore = Obj, !.gore_prob = v] :
              v \in IllTypedScores}
      \cup {[EmptyImageJson(Obj) EXCEPT !.nudity = Obj,
                                        !.sexual_activity = Num(SEXUAL_THRESHOLD + 1),
                                        !.weapon = v] : v \in IllTypedScores}

SightengineImageHttp ==
    Failures \cup {JsonResponse(HTTP_OK, b) : b \in SightengineImageScored}
             \cup {JsonResponse(HTTP_OK, b) : b \in SightengineImageIllTyped}
             \cup {JsonResponse(st, [EmptyImageJson(Obj) EXCEPT
                                        !.weapon = Num(WEAPON_THRESHOLD + 1)]) :
                     st \in OtherStatuses}

\* A buggy comparison: a score equal to the threshold flags.
Exceeds_or_equal(n, threshold) == n >= threshold

\* score > threshold on two numbers.
Exceeds(n, threshold) == n > threshold

\* d.get(key, 0) > threshold in Python: a missing key counts 0, True counts
\* 1 (ten tenths), a string or None cannot be compared with a float.
GreaterThan(score, threshold) ==
    CASE score.t = "number" -> Return(Exceeds(score.n, threshold))
      [] score.t = Missing -> Return(Exceeds(0, threshold))
      [] score.t = "true" -> Return(Exceeds(10, threshold))
      [] OTHER -> Raise

ImageResult(is_safe, why) == [is_safe |-> is_safe, reason |-> why]
ImageSafe == ImageResult(TRUE, NoneStr)
ImageRaise == [raised |-> TRUE, value |-> ImageSafe, caught |-> FALSE]

\* The try block of _check_sightengine_image (after the enabled guard).
check_sightengine_image_try(h) ==
    IF h.kind # "response" THEN ImageRaise
    ELSE IF h.status # HTTP_OK THEN Return(ImageSafe)
    ELSE IF h.json.top = Invalid \/ ~IsDict(h.json.top) THEN ImageRaise
    ELSE
    LET j == h.json
        nudity == IF j.nudity = Missing THEN "{}" ELSE j.nudity
        offensive == IF j.offensive = Missing THEN "{}" ELSE j.offensive
        gore == IF j.gore = Missing THEN "{}" ELSE j.gore
        sa == GreaterThan(j.sexual_activity, SEXUAL_THRESHOLD)
        sd == GreaterThan(j.sexual_display, SEXUAL_THRESHOLD)
        wad == GreaterThan(j.weapon, WEAPON_THRESHOLD)
        off == GreaterThan(j.offensive_prob, OFFENSIVE_THRESHOLD)
        gor == GreaterThan(j.gore_prob, GORE_THRESHOLD)
    IN  \* 1. nudity: a or b evaluates b only when a is false
        IF ~IsDict(nudity) \/ sa.raised THEN ImageRaise
        ELSE IF sa.value THEN
            Return(ImageResult(FALSE,
                Str("Imagen contiene contenido sexual o desnudez inapropiada")))
        ELSE IF sd.raised THEN ImageRaise
        ELSE IF sd.value THEN
            Return(ImageResult(FALSE,
                Str("Imagen contiene contenido sexual o desnudez inapropiada")))
        \* 2. weapons
        ELSE IF wad.raised THEN ImageRaise
        ELSE IF wad.value THEN Return(ImageResult(FALSE, Str("Imagen contiene armas")))
        \* 3. offensive
        ELSE IF ~IsDict(offensive) \/ off.raised THEN ImageRaise
        ELSE IF off.value THEN
            Return(ImageResult(FALSE, Str("Imagen contiene contenido ofensivo")))
        \* 4. gore
        ELSE IF ~IsDict(gore) \/ gor.raised THEN ImageRaise
        ELSE IF gor.value THEN
            Return(ImageResult(FALSE, Str("Imagen contiene contenido violento o gore")))
        ELSE Return(ImageSafe)

\* A buggy category chain: the weapon score is looked at before nudity.
check_sightengine_image_weapons_first(enabled, h) ==
    IF ~enabled THEN Return(ImageSafe)
    ELSE IF /\ h.kind = "response" /\ h.status = HTTP_OK /\ IsDict(h.json.top)
            /\ h.json.weapon.t = "number"
            /\ Exceeds(h.json.weapon.n, WEAPON_THRESHOLD)
         THEN Return(ImageResult(FALSE, Str("Imagen contiene armas")))
    ELSE LET r == check_sightengine_image_try(h)
         IN  IF r.raised THEN Caught(ImageSafe) ELSE r

check_sightengine_image(enabled, h) ==
    IF ~enabled THEN Return(ImageSafe)
    ELSE LET r == check_sightengine_image_try(h)
         IN  IF r.raised THEN Caught(ImageSafe) ELSE r

----------------------------------------------------------------------------
(* The aggregators *)

\* The checker methods, in the order moderate_content runs them.
Pipeline == <<"purgomalum", "moderatecontent", "openai_moderation", "sightengine_text">>

Methods == Range(Pipeline) \cup {"sightengine_image"}

\* The name a checker method is recorded under in flagged_by.
Name(m) ==
    CASE m = "purgomalum" -> "PurgoMalum"
      [] m = "moderatecontent" -> "ModerateContent"
      [] m = "openai_moderation" -> "OpenAI"
      [] m = "sightengine_text" -> "Sightengine"
      [] m = "sightengine_image" -> "Sightengine"

\* The reason moderate_content gives when a checker flags.
Message(m) ==
    CASE m = "purgomalum" -> "Contenido contiene lenguaje inapropiado o profanidad"
      [] m = "moderatecontent" -> "Contenido inapropiado detectado por ModerateContent"
      [] m = "openai_moderation" -> "Contenido inapropiado detectado por OpenAI"
      [] m = "sightengine_text" -> "Contenido inapropiado detectado por Sightengine"

\* A buggy order: the OpenAI block placed before the ModerateContent block.
NextStage_swapped(m) ==
    CASE m = "purgomalum" -> "openai_moderation"
      [] m = "openai_moderation" -> "moderatecontent"
      [] m = "moderatecontent" -> "sightengine_text"
      [] m = "sightengine_text" -> "text_return"

\* Where moderate_content continues after the block of checker m.
NextStage(m) ==
    CASE m = "purgomalum" -> "moderatecontent"
      [] m = "moderatecontent" -> "openai_moderation"
      [] m = "openai_moderation" -> "sightengine_text"
      [] m = "sightengine_text" -> "text_return"

\* A buggy test: the block runs when the checker says safe.
Flags_inverted(r) == r.value

\* if not self._check_x(text): the checker returned False.
Flags(r) == ~r.value

\* A buggy assignment: every flagging checker overwrites the reason.
NewReason_overwrite(old, m, first) == Str(Message(m))

\* A buggy test: "if reason" for "if not reason", the reason is never set
\* by a checker after the first.
NewReason_if_reason(old, m, first) ==
    IF first \/ Truthy(old) THEN Str(Message(m)) ELSE old

\* The reason after checker m flagged: PurgoMalum (first) assigns it, the
\* others assign it "if not reason".
NewReason(old, m, first) ==
    IF first \/ ~Truthy(old) THEN Str(Message(m)) ELSE old

\* A buggy test: one flag is tolerated.
IsSafe_off_by_one(fb) == Len(fb) <= 1

\* is_safe = len(flagged_by) == 0
IsSafe(fb) == Len(fb) = 0

\* The ModerationResult model: its three fields.
ModerationResult(is_safe, why, fb) ==
    [is_safe |-> is_safe, reason |-> why, flagged_by |-> fb]

NoVerdict == ModerationResult(FALSE, NoneStr, <<>>)

NoReturns == [m \in Methods |-> "-"]

\* A buggy default: the unmoderated image is returned without a reason.
ImageUnavailable_no_reason == ModerationResult(TRUE, NoneStr, <<>>)

\* What moderate_image returns when Sightengine is not configured.
ImageUnavailable ==
    ModerationResult(TRUE, Str("Moderación de imágenes no disponible"), <<>>)

\* The effect of one checker block of moderate_content whose checker m
\* made the request answered by h and gave r.
AfterCheck(m, h, r, first) ==
    /\ calls' = Append(calls, m)
    /\ http' = h
    /\ IF r.raised
       THEN /\ pc' = "raised"
            /\ UNCHANGED <<flagged_by, reason, ret, caught>>
       ELSE /\ ret' = [ret EXCEPT ![m] = IF r.value THEN "True" ELSE "False"]
            /\ caught' = IF r.caught THEN caught \cup {m} ELSE caught
            /\ pc' = NextStage(m)
            /\ IF Flags(r)
               THEN /\ flagged_by' = Append(flagged_by, Name(m))
                    /\ reason' = NewReason(reason, m, first)
               ELSE UNCHANGED <<flagged_by, reason>>
    /\ UNCHANGED <<settings, service, op, verdict>>

\* A checker block whose checker is not enabled.
Skip(m) ==
    /\ pc' = NextStage(m)
    /\ UNCHANGED <<settings, service, op, flagged_by, reason, calls, ret, http, caught,
                   verdict>>

\* A caller enters moderate_content(text).
call_moderate_content ==
    /\ pc \in {"idle", "done"}
    /\ op' = "moderate_content"
    /\ pc' = "purgomalum"
    /\ flagged_by' = <<>>
    /\ reason' = NoneStr
    /\ calls' = <<>>
    /\ ret' = NoReturns
    /\ http' = NoHttp
    /\ caught' = {}
    /\ verdict' = NoVerdict
    /\ UNCHANGED <<settings, service>>

moderate_content_purgomalum ==
    /\ op = "moderate_content" /\ pc = "purgomalum"
    /\ IF service.purgomalum_enabled
       THEN \E h \in PurgomalumHttp :
                AfterCheck("purgomalum", h, check_purgomalum(h), TRUE)
       ELSE Skip("purgomalum")

moderate_content_moderatecontent ==
    /\ op = "moderate_content" /\ pc = "moderatecontent"
    /\ IF service.moderatecontent_enabled
       THEN \E h \in ModeratecontentHttp :
                AfterCheck("moderatecontent", h,
                           check_moderatecontent(service.moderatecontent_enabled, h), FALSE)
       ELSE Skip("moderatecontent")

moderate_content_openai ==
    /\ op = "moderate_content" /\ pc = "openai_moderation"
    /\ IF service.openai_enabled
       THEN \E h \in OpenaiHttp :
                AfterCheck("openai_moderation", h,
                           check_openai_moderation(service.openai_enabled, h), FALSE)
       ELSE Skip("openai_moderation")

moderate_content_sightengine ==
    /\ op = "moderate_content" /\ pc = "sightengine_text"
    /\ IF service.sightengine_enabled
       THEN \E h \in SightengineTextHttp :
                AfterCheck("sightengine_text", h,
                           check_sightengine_text(service.sightengine_enabled, h), FALSE)
       ELSE Skip("sightengine_text")

moderate_content_return ==
    /\ op = "moderate_content" /\ pc = "text_return"
    /\ verdict' = ModerationResult(IsSafe(flagged_by), reason, flagged_by)
    /\ pc' = "done"
    /\ UNCHANGED <<settings, service, op, flagged_by, reason, calls, ret, http, caught>>

\* A caller enters moderate_image(image_url).
call_moderate_image ==
    /\ pc \in {"idle", "done"}
    /\ op' = "moderate_image"
    /\ pc' = "image_check"
    /\ flagged_by' = <<>>
    /\ reason' = NoneStr
    /\ calls' = <<>>
    /\ ret' = NoReturns
    /\ http' = NoHttp
    /\ caught' = {}
    /\ verdict' = NoVerdict
    /\ UNCHANGED <<settings, service>>

moderate_image_check ==
    /\ op = "moderate_image" /\ pc = "image_check"
    /\ IF service.sightengine_enabled
       THEN \E h \in SightengineImageHttp :
              LET r == check_sightengine_image(service.sightengine_enabled, h) IN
                /\ calls' = Append(calls, "sightengine_image")
                /\ http' = h
                /\ IF r.raised
                   THEN /\ pc' = "raised"
                        /\ UNCHANGED <<flagged_by, reason, ret, caught>>
                   ELSE /\ ret' = [ret EXCEPT !["sightengine_image"] =
                                      IF r.value.is_safe THEN "True" ELSE "False"]
                        /\ caught' = IF r.caught
                                     THEN caught \cup {"sightengine_image"} ELSE caught
                        /\ pc' = "image_return"
                        /\ IF ~r.value.is_safe
                           THEN /\ flagged_by' = Append(flagged_by, Name("sightengine_image"))
                                /\ reason' = r.value.reason
                           ELSE UNCHANGED <<flagged_by, reason>>
                /\ UNCHANGED verdict
       ELSE /\ verdict' = ImageUnavailable
            /\ pc' = "done"
            /\ UNCHANGED <<flagged_by, reason, calls, ret, http, caught>>
    /\ UNCHANGED <<settings, service, op>>

moderate_image_return ==
    /\ op = "moderate_image" /\ pc = "image_return"
    /\ verdict' = ModerationResult(IsSafe(flagged_by), reason, flagged_by)
    /\ pc' = "done"
    /\ UNCHANGED <<settings, service, op, flagged_by, reason, calls, ret, http, caught>>

----------------------------------------------------------------------------
(* The aggregators as functions of the vendors' answers *)

\* self.x_enabled of the service instance s for checker method m.
Enabled(s, m) ==
    CASE m = "purgomalum" -> s.purgomalum_enabled
      [] m = "moderatecontent" -> s.moderatecontent_enabled
      [] m = "openai_moderation" -> s.openai_enabled
      [] m = "sightengine_text" -> s.sightengine_enabled
      [] m = "sightengine_image" -> s.sightengine_enabled

\* self._check_x(text) of the service instance s, its request answered by h.
Check(s, m, h) ==
    CASE m = "purgomalum" -> check_purgomalum(h)
      [] m = "moderatecontent" -> check_moderatecontent(s.moderatecontent_enabled, h)
      [] m = "openai_moderation" -> check_openai_moderation(s.openai_enabled, h)
      [] m = "sightengine_text" -> check_sightengine_text(s.sightengine_enabled, h)

\* The blocks of moderate_content from the i-th on, entered with the locals
\* flagged_by = fb and reason = why; answers[m] answers checker m's request.
RECURSIVE moderate_content_blocks(_, _, _, _, _)
moderate_content_blocks(s, answers, i, fb, why) ==
    IF i > Len(Pipeline)
    THEN Return(ModerationResult(IsSafe(fb), why, fb))
    ELSE LET m == Pipeline[i]
             r == Check(s, m, answers[m])
         IN  IF ~Enabled(s, m) THEN moderate_content_blocks(s, answers, i + 1, fb, why)
             ELSE IF r.raised THEN [raised |-> TRUE, value |-> NoVerdict, caught |-> FALSE]
             ELSE IF Flags(r)
                  THEN moderate_content_blocks(s, answers, i + 1, Append(fb, Name(m)),
                                               NewReason(why, m, i = 1))
                  ELSE moderate_content_blocks(s, answers, i + 1, fb, why)

\* moderation_service.moderate_content(text) as one call.
moderate_content(s, answers) == moderate_content_blocks(s, answers, 1, <<>>, NoneStr)

\* moderation_service.moderate_image(image_url) as one call.
moderate_image(s, h) ==
    IF ~s.sightengine_enabled THEN Return(ImageUnavailable)
    ELSE LET r == check_sightengine_image(s.sightengine_enabled, h)
         IN  IF r.raised THEN [raised |-> TRUE, value |-> NoVerdict, caught |-> FALSE]
             ELSE IF ~r.value.is_safe
                  THEN Return(ModerationResult(IsSafe(<<"Sightengine">>), r.value.reason,
                                               <<"Sightengine">>))
                  ELSE Return(ModerationResult(IsSafe(<<>>), NoneStr, <<>>))

\* For each checker an answer that passes, one that flags, and a timeout.
SampleHttp(m) ==
    CASE m = "purgomalum" ->
            {TextResponse(HTTP_OK, FalseText), TextResponse(HTTP_OK, TrueText),
             Exception("Timeout")}
      [] m = "moderatecontent" ->
            {JsonResponse(HTTP_OK, ModeratecontentJson(Obj, "\"safe\"")),
             JsonResponse(HTTP_OK, ModeratecontentJson(Obj, "\"adult\"")),
             Exception("Timeout")}
      [] m = "openai_moderation" ->
            {JsonResponse(HTTP_OK, OpenaiJson(Obj, "[...]", Obj, "false")),
             JsonResponse(HTTP_OK, OpenaiJson(Obj, "[...]", Obj, "true")),
             Exception("Timeout")}
      [] m = "sightengine_text" ->
            {JsonResponse(HTTP_OK, SightengineTextJson(Obj, Obj, "[]", Missing)),
             JsonResponse(HTTP_OK, SightengineTextJson(Obj, Obj, "[...]", Missing)),
             Exception("Timeout")}
      [] m = "sightengine_image" ->
            {JsonResponse(HTTP_OK, EmptyImageJson(Obj)),
             JsonResponse(HTTP_OK, [EmptyImageJson(Obj) EXCEPT
                                        !.weapon = Num(WEAPON_THRESHOLD + 1)]),
             JsonResponse(HTTP_OK, [EmptyImageJson(Obj) EXCEPT
                                        !.nudity = Obj,
                                        !.sexual_display = Num(SEXUAL_THRESHOLD + 1)]),
             Exception("Timeout")}

\* The answers of the four text vendors to the requests of one call.
TextAnswers ==
    {[m \in Range(Pipeline) |->
        CASE m = "purgomalum" -> a1 [] m = "moderatecontent" -> a2
          [] m = "openai_moderation" -> a3 [] m = "sightengine_text" -> a4] :
     a1 \in SampleHttp("purgomalum"), a2 \in SampleHttp("moderatecontent"),
     a3 \in SampleHttp("openai_moderation"), a4 \in SampleHttp("sightengine_text")}

----------------------------------------------------------------------------
(* Tokens, Firestore documents and Storage objects *)

Uids == {"u1", "u2"}

\* A bearer token: a JWT signed by create_access_token for a uid, or
\* anything else (a bad signature, not a JWT).
Jwt(uid) == [kind |-> "jwt", uid |-> uid]
Forged(uid) == [kind |-> "forged", uid |-> uid]
Tokens == {Jwt(u) : u \in Uids} \cup {Forged("u1")}

\* What a handler's call gives back: a value, or an HTTPException with its
\* status.
Ok(v) == [raised |-> FALSE, status_code |-> 0, value |-> v]
HTTPException(st) == [raised |-> TRUE, status_code |-> st, value |-> "-"]

\* verify_token: a blacklisted token and a token jwt.decode rejects raise
\* 401; there is no expiry check. The payload is reduced to its uid.
verify_token(token, blacklist) ==
    IF token \in blacklist THEN HTTPException(401)
    ELSE IF token.kind # "jwt" THEN HTTPException(401)
    ELSE Ok(token.uid)

\* An Optional URL; a URL is the sequence of its path segments.
NoneUrl == [some |-> FALSE, s |-> <<>>]
Url(segments) == [some |-> TRUE, s |-> segments]

BucketName == "bucket"

\* blob.public_url of the blob stored under path.
PublicUrl(path) == Url(<<"storage.googleapis.com", BucketName>> \o path)

\* image_url.split(bucket.name + '/')[-1]: what follows the last occurrence
\* of the bucket name, the whole URL when there is none.
RECURSIVE AfterLast(_, _)
AfterLast(segments, name) ==
    IF \E i \in 1..Len(segments) : segments[i] = name
    THEN LET i == CHOOSE k \in 1..Len(segments) : segments[k] = name
         IN  AfterLast(SubSeq(segments, i + 1, Len(segments)), name)
    ELSE segments

\* An image hosted elsewhere, as a client may name it in a request body.
ExternalUrl == Url(<<"example.org", "picture">>)

\* The path upload_post_image stores a post image under.
PostImagePath(user_id, image_id) == <<"posts", user_id, ToString(image_id)>>

\* The document create_post and create_post_with_image write.
PostData(post_id, user_id, image_url) ==
    [post_id |-> post_id, user_id |-> user_id, image_url |-> image_url,
     likes_count |-> 0, comments_count |-> 0, is_deleted |-> FALSE]

----------------------------------------------------------------------------
(* The request bodies of the post-creation endpoints *)

\* 5 * 1024 * 1024 bytes.
MAX_IMAGE_BYTES == 5 * 1024 * 1024

ImagePng == <<"i", "m", "a", "g", "e", "/", "p", "n", "g">>
TextPlain == <<"t", "e", "x", "t", "/", "p", "l", "a", "i", "n">>
ImageNoSlash == <<"i", "m", "a", "g", "e">>
ImagePrefix == <<"i", "m", "a", "g", "e", "/">>

\* UploadFile.content_type: a media type, or None when the part has none.
NoContentType == [some |-> FALSE, s |-> <<>>]
ContentType(t) == [some |-> TRUE, s |-> t]
ContentTypes == {ContentType(ImagePng), ContentType(TextPlain), ContentType(ImageNoSlash),
                 NoContentType}

\* str.startswith
StartsWith(t, prefix) == Len(t) >= Len(prefix) /\ SubSeq(t, 1, Len(prefix)) = prefix

ImageSizes == {MAX_IMAGE_BYTES, MAX_IMAGE_BYTES + 1}

NoRequest ==
    [endpoint |-> "none", token |-> Forged("u1"), image_url |-> NoneUrl,
     content_type |-> NoContentType, size |-> 0]

CreatePostRequests ==
    {[endpoint |-> "create_post", token |-> t, image_url |-> u,
      content_type |-> NoContentType, size |-> 0] :
        t \in Tokens, u \in {NoneUrl, ExternalUrl}}

CreatePostWithImageRequests ==
    {[endpoint |-> "create_post_with_image", token |-> t, image_url |-> NoneUrl,
      content_type |-> c, size |-> n] :
        t \in Tokens, c \in ContentTypes, n \in ImageSizes}

LogoutRequests ==
    {[endpoint |-> "logout", token |-> t, image_url |-> NoneUrl,
      content_type |-> NoContentType, size |-> 0] : t \in Tokens}

\* The local variables of a post-creation handler before its first line.
NoLocals ==
    [current_user |-> "-", moderation_result |-> NoVerdict, image_url |-> NoneUrl,
     image_moderation |-> NoVerdict, post_id |-> 0]

\* One entry of the record of what a handler did: a call of the moderation
\* service with its verdict, a Storage operation, a Firestore write.
Event(ev, url, is_safe) == [ev |-> ev, url |-> url, is_safe |-> is_safe]

----------------------------------------------------------------------------
(* The post-creation handlers: create_post and create_post_with_image *)

\* How many post-creation requests the model serves.
MaxRequests == 1

\* A Firestore call answers or raises.
FirestoreOutcomes == {"ok", "unavailable"}

\* The status a handler's except clauses turn an exception into:
\* "except HTTPException: raise", "except Exception" answers 500.
StatusOf(e) == IF e.status_code = 0 THEN 500 ELSE e.status_code

Respond(st) == response' = st /\ hpc' = "responded"

\* A buggy order: the image is uploaded and moderated before the text.
AfterStep_upload_first(endpoint, step) ==
    IF endpoint = "create_post"
    THEN CASE step = "verify_token" -> "moderate_content"
           [] step = "moderate_content" -> "user_doc"
           [] step = "user_doc" -> "post_set"
    ELSE CASE step = "verify_token" -> "validate_image"
           [] step = "validate_image" -> "upload"
           [] step = "upload" -> "moderate_image"
           [] step = "moderate_image" -> "moderate_content"
           [] step = "moderate_content" -> "user_doc"
           [] step = "user_doc" -> "post_set"

\* A buggy order: the file is validated after the text was moderated.
AfterStep_validate_late(endpoint, step) ==
    IF endpoint = "create_post"
    THEN CASE step = "verify_token" -> "moderate_content"
           [] step = "moderate_content" -> "user_doc"
           [] step = "user_doc" -> "post_set"
    ELSE CASE step = "verify_token" -> "moderate_content"
           [] step = "moderate_content" -> "validate_image"
           [] step = "validate_image" -> "upload"
           [] step = "upload" -> "moderate_image"
           [] step = "moderate_image" -> "user_doc"
           [] step = "user_doc" -> "post_set"

\* Where a handler continues when a step neither raises nor rejects: the
\* order of the statements of create_post and of create_post_with_image.
AfterStep(endpoint, step) ==
    IF endpoint = "create_post"
    THEN CASE step = "verify_token" -> "moderate_content"
           [] step = "moderate_content" -> "user_doc"
           [] step = "user_doc" -> "post_set"
    ELSE CASE step = "verify_token" -> "validate_image"
           [] step = "validate_image" -> "moderate_content"
           [] step = "moderate_content" -> "upload"
           [] step = "upload" -> "moderate_image"
           [] step = "moderate_image" -> "user_doc"
           [] step = "user_doc" -> "post_set"

\* A buggy test: the verdict of the moderation is not looked at.
Rejects_never(result) == FALSE

\* if not moderation_result.is_safe
Rejects(result) == ~result.is_safe

Serving(endpoint, at) == request.endpoint = endpoint /\ hpc = at

\* A request for one of the two endpoints arrives; its handler starts.
receive_request ==
    /\ hpc \in {"idle", "responded"}
    /\ served < MaxRequests
    /\ request' \in CreatePostRequests \cup CreatePostWithImageRequests
    /\ hpc' = "verify_token"
    /\ locals' = NoLocals
    /\ events' = <<>>
    /\ response' = 0
    /\ served' = served + 1
    /\ UNCHANGED <<token_blacklist, users, posts, blobs, uuids>>
    /\ UNCHANGED outside_posts

\* The effect of "current_user = verify_token(token)" in either handler.
VerifyToken ==
    LET r == verify_token(request.token, token_blacklist) IN
    /\ IF r.raised
       THEN Respond(StatusOf(r)) /\ UNCHANGED locals
       ELSE /\ locals' = [locals EXCEPT !.current_user = r.value]
            /\ hpc' = AfterStep(request.endpoint, "verify_token")
            /\ UNCHANGED response
    /\ UNCHANGED <<token_blacklist, users, posts, blobs, request, events, uuids, served>>
    /\ UNCHANGED outside_posts

\* The effect of "moderation_result = moderation_service.moderate_content(...)"
\* and of the test of is_safe that follows, in either handler.
ModerateContent ==
    /\ \E answers \in TextAnswers :
         LET r == moderate_content(service, answers) IN
         IF r.raised
         THEN /\ Respond(500)
              /\ events' = Append(events, Event("moderate_content", NoneUrl, FALSE))
              /\ UNCHANGED locals
         ELSE /\ locals' = [locals EXCEPT !.moderation_result = r.value]
              /\ events' = Append(events,
                                  Event("moderate_content", NoneUrl, r.value.is_safe))
              /\ IF Rejects(r.value)
                 THEN Respond(400)
                 ELSE /\ hpc' = AfterStep(request.endpoint, "moderate_content")
                      /\ UNCHANGED response
    /\ UNCHANGED <<token_blacklist, users, posts, blobs, request, uuids, served>>
    /\ UNCHANGED outside_posts

\* The effect of reading the user's document, in either handler.
UserDoc ==
    /\ \E fs \in FirestoreOutcomes :
         IF fs # "ok" THEN Respond(500)
         ELSE IF locals.current_user \notin users THEN Respond(404)
         ELSE hpc' = AfterStep(request.endpoint, "user_doc") /\ UNCHANGED response
    /\ UNCHANGED <<token_blacklist, users, posts, blobs, request, locals, events, uuids,
                   served>>
    /\ UNCHANGED outside_posts

\* The effect of writing the post document, in either handler: post_id is
\* a new uuid, image_url is what the handler holds as the image's URL.
PostSet(image_url) ==
    /\ uuids' = uuids + 1
    /\ \E fs \in FirestoreOutcomes :
         IF fs # "ok"
         THEN Respond(500) /\ UNCHANGED <<posts, locals, events>>
         ELSE /\ posts' = posts \cup {PostData(uuids + 1, locals.current_user, image_url)}
              /\ locals' = [locals EXCEPT !.post_id = uuids + 1]
              /\ events' = Append(events, Event("posts.set", image_url, FALSE))
              /\ Respond(201)
    /\ UNCHANGED <<token_blacklist, users, blobs, request, served>>
    /\ UNCHANGED outside_posts

create_post_verify_token ==
    Serving("create_post", "verify_token") /\ VerifyToken

create_post_moderate_content ==
    Serving("create_post", "moderate_content") /\ ModerateContent

create_post_user_doc ==
    Serving("create_post", "user_doc") /\ UserDoc

\* 'image_url': request.image_url
create_post_set ==
    Serving("create_post", "post_set") /\ PostSet(request.image_url)

create_post_with_image_verify_token ==
    Serving("create_post_with_image", "verify_token") /\ VerifyToken

\* The content type test, image.read() and the size test.
create_post_with_image_validate ==
    /\ Serving("create_post_with_image", "validate_image")
    /\ IF ~request.content_type.some THEN Respond(500)       \* None.startswith
       ELSE IF ~StartsWith(request.content_type.s, ImagePrefix) THEN Respond(400)
       ELSE IF request.size > MAX_IMAGE_BYTES THEN Respond(400)
       ELSE /\ hpc' = AfterStep(request.endpoint, "validate_image")
            /\ UNCHANGED response
    /\ UNCHANGED <<token_blacklist, users, posts, blobs, request, locals, events, uuids,
                   served>>
    /\ UNCHANGED outside_posts

create_post_with_image_moderate_content ==
    Serving("create_post_with_image", "moderate_content") /\ ModerateContent

\* storage_service.upload_post_image: the blob is stored under a new name
\* and made public, or the call raises ValueError before or after storing.
create_post_with_image_upload ==
    /\ Serving("create_post_with_image", "upload")
    /\ uuids' = uuids + 1
    /\ LET path == PostImagePath(locals.current_user, uuids + 1) IN
       \E outcome \in {"stored", "failed", "stored_not_public"} :
         /\ blobs' = IF outcome = "failed" THEN blobs ELSE blobs \cup {path}
         /\ IF outcome = "stored"
            THEN /\ locals' = [locals EXCEPT !.image_url = PublicUrl(path)]
                 /\ events' = Append(events,
                                     Event("upload_post_image", PublicUrl(path), FALSE))
                 /\ hpc' = AfterStep(request.endpoint, "upload")
                 /\ UNCHANGED response
            ELSE /\ events' = Append(events, Event("upload_post_image", NoneUrl, FALSE))
                 /\ Respond(500)
                 /\ UNCHANGED locals
    /\ UNCHANGED <<token_blacklist, users, posts, request, served>>
    /\ UNCHANGED outside_posts

\* image_moderation = moderation_service.moderate_image(image_url)
create_post_with_image_moderate_image ==
    /\ Serving("create_post_with_image", "moderate_image")
    /\ \E h \in SampleHttp("sightengine_image") :
         LET r == moderate_image(service, h) IN
         IF r.raised
         THEN /\ Respond(500)
              /\ events' = Append(events, Event("moderate_image", locals.image_url, FALSE))
              /\ UNCHANGED locals
         ELSE /\ locals' = [locals EXCEPT !.image_moderation = r.value]
              /\ events' = Append(events,
                                  Event("moderate_image", locals.image_url, r.value.is_safe))
              /\ hpc' = IF Rejects(r.value)
                        THEN "delete_image"
                        ELSE AfterStep(request.endpoint, "moderate_image")
              /\ UNCHANGED response
    /\ UNCHANGED <<token_blacklist, users, posts, blobs, request, uuids, served>>
    /\ UNCHANGED outside_posts

\* A buggy rejection: the 400 is raised and the uploaded image left alone.
create_post_with_image_delete_image_skipped ==
    /\ Serving("create_post_with_image", "delete_image")
    /\ Respond(400)
    /\ UNCHANGED <<token_blacklist, users, posts, blobs, request, locals, events, uuids,
                   served>>
    /\ UNCHANGED outside_posts

\* storage_service.delete_image(image_url), which deletes the blob or
\* swallows the error, and the 400 that follows.
create_post_with_image_delete_image ==
    /\ Serving("create_post_with_image", "delete_image")
    /\ LET path == AfterLast(locals.image_url.s, BucketName) IN
       \E deleted \in BOOLEAN :
         blobs' = IF deleted THEN blobs \ {path} ELSE blobs
    /\ events' = Append(events, Event("delete_image", locals.image_url, FALSE))
    /\ Respond(400)
    /\ UNCHANGED <<token_blacklist, users, posts, request, locals, uuids, served>>
    /\ UNCHANGED outside_posts

create_post_with_image_user_doc ==
    Serving("create_post_with_image", "user_doc") /\ UserDoc

\* 'image_url': image_url
create_post_with_image_set ==
    Serving("create_post_with_image", "post_set") /\ PostSet(locals.image_url)

\* POST /auth/logout: the token is verified and blacklisted; every
\* exception, the 401 of verify_token included, is answered with 500.
logout ==
    /\ hpc \in {"idle", "responded"}
    /\ \E r \in LogoutRequests :
         LET v == verify_token(r.token, token_blacklist) IN
         /\ request' = r
         /\ IF v.raised
            THEN Respond(500) /\ UNCHANGED token_blacklist
            ELSE Respond(200) /\ token_blacklist' = token_blacklist \cup {r.token}
    /\ locals' = NoLocals
    /\ events' = <<>>
    /\ UNCHANGED <<users, posts, blobs, uuids, served>>
    /\ UNCHANGED outside_posts

\* The stores are empty but for the users that registered; nothing is
\* being served.
InitPosts ==
    /\ token_blacklist = {}
    /\ users \in {{"u1"}, {"u1", "u2"}}
    /\ posts = {}
    /\ blobs = {}
    /\ request = NoRequest
    /\ hpc = "idle"
    /\ locals = NoLocals
    /\ events = <<>>
    /\ response = 0
    /\ uuids = 0
    /\ served = 0

----------------------------------------------------------------------------
(* Calls of the moderation service made side by side *)

\* The requests whose handlers are inside the moderation service at once.
Callers == {"a", "b"}

\* A buggy service: flagged_by and reason kept on the singleton, one pair
\* for every call.
Frame_shared(c) == "a"

\* Where a call keeps flagged_by and reason: they are local variables of
\* moderate_content and moderate_image, one pair per call.
Frame(c) == c

NoAnswers == [m \in Methods |-> NoHttp]

IdleCaller == [op |-> "none", pc |-> "idle", answers |-> NoAnswers, verdict |-> NoVerdict]

EmptyFrame == [flagged_by |-> <<>>, reason |-> NoneStr]

\* A handler enters moderate_content or moderate_image: flagged_by = [],
\* reason = None.
concurrent_call(c) ==
    /\ callers[c].pc = "idle"
    /\ \E o \in {"moderate_content", "moderate_image"} :
         callers' = [callers EXCEPT ![c] =
                        [op |-> o,
                         pc |-> IF o = "moderate_content" THEN Pipeline[1] ELSE "image_check",
                         answers |-> NoAnswers, verdict |-> NoVerdict]]
    /\ frames' = [frames EXCEPT ![Frame(c)] = EmptyFrame]
    /\ UNCHANGED <<moderation_vars, posts_vars, likes_vars, community_vars>>

\* One checker block of moderate_content in call c.
concurrent_check(c) ==
    /\ callers[c].op = "moderate_content"
    /\ callers[c].pc \in Range(Pipeline)
    /\ LET m == callers[c].pc
           f == frames[Frame(c)]
       IN  IF ~Enabled(service, m)
           THEN /\ callers' = [callers EXCEPT ![c].pc = NextStage(m)]
                /\ UNCHANGED frames
           ELSE \E h \in SampleHttp(m) :
                  LET r == Check(service, m, h) IN
                  /\ callers' = [callers EXCEPT ![c].pc = NextStage(m),
                                                ![c].answers[m] = h]
                  /\ IF Flags(r)
                     THEN frames' = [frames EXCEPT ![Frame(c)] =
                                       [flagged_by |-> Append(f.flagged_by, Name(m)),
                                        reason |-> NewReason(f.reason, m, m = Pipeline[1])]]
                     ELSE UNCHANGED frames
    /\ UNCHANGED <<moderation_vars, posts_vars, likes_vars, community_vars>>

\* The image check of moderate_image in call c.
concurrent_image_check(c) ==
    /\ callers[c].op = "moderate_image"
    /\ callers[c].pc = "image_check"
    /\ LET f == frames[Frame(c)] IN
       IF ~service.sightengine_enabled
       THEN /\ callers' = [callers EXCEPT ![c].pc = "done", ![c].verdict = ImageUnavailable]
            /\ UNCHANGED frames
       ELSE \E h \in SampleHttp("sightengine_image") :
              LET r == check_sightengine_image(service.sightengine_enabled, h) IN
              /\ callers' = [callers EXCEPT ![c].pc = "image_return",
                                            ![c].answers["sightengine_image"] = h]
              /\ IF ~r.value.is_safe
                 THEN frames' = [frames EXCEPT ![Frame(c)] =
                                   [flagged_by |-> Append(f.flagged_by,
                                                          Name("sightengine_image")),
                                    reason |-> r.value.reason]]
                 ELSE UNCHANGED frames
    /\ UNCHANGED <<moderation_vars, posts_vars, likes_vars, community_vars>>

\* The return statement of moderate_content or moderate_image in call c.
concurrent_return(c) ==
    /\ callers[c].pc \in {"text_return", "image_return"}
    /\ LET f == frames[Frame(c)] IN
       callers' = [callers EXCEPT
                      ![c].pc = "done",
                      ![c].verdict = ModerationResult(IsSafe(f.flagged_by), f.reason,
                                                      f.flagged_by)]
    /\ UNCHANGED frames
    /\ UNCHANGED <<moderation_vars, posts_vars, likes_vars, community_vars>>

InitCallers ==
    /\ callers = [c \in Callers |-> IdleCaller]
    /\ frames = [c \in Callers |-> EmptyFrame]

----------------------------------------------------------------------------
(* The like handlers: like_post and unlike_post *)

\* The server processes that serve like and unlike requests against the one
\* Firestore database; each serves one request at a time, and their
\* Firestore calls interleave.
Workers == {"w1", "w2"}

\* How many like and unlike requests the model serves.
MaxLikeRequests == 3

\* The post ids a request may name: the post that exists and one that does
\* not.
ExistingPostId == 1
PostIds == {ExistingPostId, ExistingPostId + 1}

\* The document like_post writes.
LikeData(like_id, post_id, user_id) ==
    [like_id |-> like_id, post_id |-> post_id, user_id |-> user_id]

\* post_doc.to_dict() as the handler keeps it in post_data.
NoPostData == [likes_count |-> 0, is_deleted |-> FALSE]
PostSnapshot(post) == [likes_count |-> post.likes_count, is_deleted |-> post.is_deleted]

IdleWorker ==
    [op |-> "none", lpc |-> "idle", user_id |-> "-", post_id |-> 0,
     post_data |-> NoPostData, like_id |-> 0, response |-> 0]

\* The worker answers its request with status st.
Answer(w, st) == workers' = [workers EXCEPT ![w].lpc = "responded", ![w].response = st]

At(w, handler, at) == workers[w].op = handler /\ workers[w].lpc = at

\* db.collection('likes').where('post_id', '==', post_id)
\*   .where('user_id', '==', user_id)
LikesOf(post_id, user_id) ==
    {l \in likes : l.post_id = post_id /\ l.user_id = user_id}

\* db.collection('posts').document(post_id).update({'likes_count': n})
UpdateLikesCount(post_id, n) ==
    {IF q.post_id = post_id THEN [q EXCEPT !.likes_count = n] ELSE q : q \in posts}

\* max(0, current_likes - 1)
Decrement(current_likes) == IF current_likes - 1 > 0 THEN current_likes - 1 ELSE 0

\* A like or unlike request reaches a free worker; verify_token runs.
likes_receive(w) ==
    /\ workers[w].lpc \in {"idle", "responded"}
    /\ served < MaxLikeRequests
    /\ served' = served + 1
    /\ \E handler \in {"like_post", "unlike_post"}, t \in Tokens, post_id \in PostIds :
         LET r == verify_token(t, token_blacklist) IN
         workers' = [workers EXCEPT ![w] =
            IF r.raised
            THEN [IdleWorker EXCEPT !.op = handler, !.post_id = post_id,
                                    !.lpc = "responded", !.response = r.status_code]
            ELSE [IdleWorker EXCEPT !.op = handler, !.post_id = post_id,
                                    !.user_id = r.value, !.lpc = "post_get"]]
    /\ UNCHANGED <<likes, posts, uuids>>
    /\ UNCHANGED <<token_blacklist, users, blobs, request, hpc, locals, events, response>>
    /\ UNCHANGED <<moderation_vars, concurrent_vars, community_vars>>

\* post_doc = db.collection('posts').document(post_id).get() and the tests
\* on it: like_post also refuses a post marked is_deleted.
PostGet(w, refuse_deleted) ==
    /\ \E fs \in FirestoreOutcomes :
         LET found == {q \in posts : q.post_id = workers[w].post_id} IN
         IF fs # "ok" THEN Answer(w, 500)
         ELSE IF found = {} THEN Answer(w, 404)
         ELSE LET post == CHOOSE q \in found : TRUE IN
              IF refuse_deleted /\ post.is_deleted THEN Answer(w, 404)
              ELSE workers' = [workers EXCEPT ![w].post_data = PostSnapshot(post),
                                              ![w].lpc = "likes_query"]
    /\ UNCHANGED <<likes, posts, uuids, served>>
    /\ UNCHANGED <<token_blacklist, users, blobs, request, hpc, locals, events, response>>
    /\ UNCHANGED <<moderation_vars, concurrent_vars, community_vars>>

like_post_get(w) == At(w, "like_post", "post_get") /\ PostGet(w, TRUE)

\* The query for a like of this user on this post: with one, the handler
\* answers "Ya habías dado like" and writes nothing.
like_post_query(w) ==
    /\ At(w, "like_post", "likes_query")
    /\ \E fs \in FirestoreOutcomes :
         IF fs # "ok" THEN Answer(w, 500)
         ELSE IF LikesOf(workers[w].post_id, workers[w].user_id) # {} THEN Answer(w, 200)
         ELSE workers' = [workers EXCEPT ![w].lpc = "like_set"]
    /\ UNCHANGED <<likes, posts, uuids, served>>
    /\ UNCHANGED <<token_blacklist, users, blobs, request, hpc, locals, events, response>>
    /\ UNCHANGED <<moderation_vars, concurrent_vars, community_vars>>

\* db.collection('likes').document(like_id).set(like_data), like_id new.
like_post_set(w) ==
    /\ At(w, "like_post", "like_set")
    /\ uuids' = uuids + 1
    /\ \E fs \in FirestoreOutcomes :
         IF fs # "ok" THEN Answer(w, 500) /\ UNCHANGED likes
         ELSE /\ likes' = likes \cup
                            {LikeData(uuids + 1, workers[w].post_id, workers[w].user_id)}
              /\ workers' = [workers EXCEPT ![w].like_id = uuids + 1,
                                              ![w].lpc = "post_update"]
    /\ UNCHANGED <<posts, served>>
    /\ UNCHANGED <<token_blacklist, users, blobs, request, hpc, locals, events, response>>
    /\ UNCHANGED <<moderation_vars, concurrent_vars, community_vars>>

\* likes_count = post_data.get('likes_count', 0) + 1, written with update;
\* the notification that follows changes nothing here and never fails the
\* request.
like_post_update(w) ==
    /\ At(w, "like_post", "post_update")
    /\ \E fs \in FirestoreOutcomes :
         IF fs # "ok" THEN Answer(w, 500) /\ UNCHANGED posts
         ELSE /\ posts' = UpdateLikesCount(workers[w].post_id,
                                           workers[w].post_data.likes_count + 1)
              /\ Answer(w, 200)
    /\ UNCHANGED <<likes, uuids, served>>
    /\ UNCHANGED <<token_blacklist, users, blobs, request, hpc, locals, events, response>>
    /\ UNCHANGED <<moderation_vars, concurrent_vars, community_vars>>

unlike_post_get(w) == At(w, "unlike_post", "post_get") /\ PostGet(w, FALSE)

\* The query for the user's like, limit(1): without one the handler answers
\* "No habías dado like"; with several, any one of them is likes_list[0].
unlike_post_query(w) ==
    /\ At(w, "unlike_post", "likes_query")
    /\ \E fs \in FirestoreOutcomes :
         LET found == LikesOf(workers[w].post_id, workers[w].user_id) IN
         IF fs # "ok" THEN Answer(w, 500)
         ELSE IF found = {} THEN Answer(w, 200)
         ELSE \E l \in found :
                workers' = [workers EXCEPT ![w].like_id = l.like_id,
                                           ![w].lpc = "like_delete"]
    /\ UNCHANGED <<likes, posts, uuids, served>>
    /\ UNCHANGED <<token_blacklist, users, blobs, request, hpc, locals, events, response>>
    /\ UNCHANGED <<moderation_vars, concurrent_vars, community_vars>>

\* db.collection('likes').document(like_doc.id).delete(); deleting a
\* document that is gone succeeds.
unlike_post_delete(w) ==
    /\ At(w, "unlike_post", "like_delete")
    /\ \E fs \in FirestoreOutcomes :
         IF fs # "ok" THEN Answer(w, 500) /\ UNCHANGED likes
         ELSE /\ likes' = {l \in likes : l.like_id # workers[w].like_id}
              /\ workers' = [workers EXCEPT ![w].lpc = "post_update"]
    /\ UNCHANGED <<posts, uuids, served>>
    /\ UNCHANGED <<token_blacklist, users, blobs, request, hpc, locals, events, response>>
    /\ UNCHANGED <<moderation_vars, concurrent_vars, community_vars>>

\* likes_count = max(0, post_data.get('likes_count', 0) - 1), written with
\* update.
unlike_post_update(w) ==
    /\ At(w, "unlike_post", "post_update")
    /\ \E fs \in FirestoreOutcomes :
         IF fs # "ok" THEN Answer(w, 500) /\ UNCHANGED posts
         ELSE /\ posts' = UpdateLikesCount(workers[w].post_id,
                                           Decrement(workers[w].post_data.likes_count))
              /\ Answer(w, 200)
    /\ UNCHANGED <<likes, uuids, served>>
    /\ UNCHANGED <<token_blacklist, users, blobs, request, hpc, locals, events, response>>
    /\ UNCHANGED <<moderation_vars, concurrent_vars, community_vars>>

InitLikes ==
    /\ likes = {}
    /\ workers = [w \in Workers |-> IdleWorker]

----------------------------------------------------------------------------
(* The requests of the other routers, served by several processes *)

\* No bearer token.
NoToken == [kind |-> "none", uid |-> "-"]

\* A process that serves no request: the handler, the position inside it,
\* the bearer token, current_user['uid'], the id in the path, the value in
\* the body, a counter and the documents read, the hour verify_token
\* returned at, and the status answered.
IdleAgent ==
    [op |-> "none", at |-> "idle", token |-> NoToken, user_id |-> "-", id |-> 0,
     arg |-> "-", count |-> 0, found |-> {}, hour |-> 0, response |-> 0]

Free(a) == agents[a].at \in {"idle", "responded"}

Doing(a, handler, at) == agents[a].op = handler /\ agents[a].at = at

\* The handler answers with status st, or moves on to its next Firestore
\* call.
Reply(a, st) == agents' = [agents EXCEPT ![a].at = "responded", ![a].response = st]
Goto(a, at) == agents' = [agents EXCEPT ![a].at = at]

\* The first statements of an authenticated handler: verify_token against
\* the blacklist of the serving process, then the test of the body, when the
\* handler has one before its first Firestore call.
Accept(a, handler, t, id, arg, bad_body, first) ==
    LET r == verify_token(t, blacklists[a])
        fresh == [IdleAgent EXCEPT !.op = handler, !.token = t, !.id = id, !.arg = arg]
    IN  agents' = [agents EXCEPT ![a] =
            IF r.raised
            THEN [fresh EXCEPT !.at = "responded", !.response = r.status_code]
            ELSE IF bad_body
            THEN [fresh EXCEPT !.user_id = r.value, !.hour = clock,
                               !.at = "responded", !.response = 400]
            ELSE [fresh EXCEPT !.user_id = r.value, !.hour = clock, !.at = first]]

\* db.collection('posts').document(post_id).get()
PostDoc(post_id) == {q \in posts : q.post_id = post_id}

\* What the handlers of this section leave alone.
community_frame ==
    <<moderation_vars, concurrent_vars, likes_vars, token_blacklist, blobs, request, hpc,
      locals, events, response>>

----------------------------------------------------------------------------
(* The report handlers: create_report and update_report_status *)

\* How many report requests the model serves.
MaxReportRequests == 3

VALID_REASONS == {"spam", "harassment", "violence", "hate_speech", "misinformation", "other"}

\* The reasons a request may give: a valid one and one that is not.
Reasons == {"spam", "boring"}

\* VALID_STATUSES, which update_report_status does not use.
AcceptedStatuses_valid_statuses == {"pending", "reviewed", "resolved"}

\* The statuses update_report_status accepts: ['reviewed', 'resolved'].
AcceptedStatuses == {"reviewed", "resolved"}

\* The statuses a request may ask for.
RequestedStatuses == {"reviewed", "resolved", "pending"}

\* The document create_report writes.
ReportData(report_id, post_id, user_id) ==
    [report_id |-> report_id, post_id |-> post_id, reported_by |-> user_id,
     status |-> "pending"]

\* db.collection('reports').where('post_id', '==', post_id)
\*   .where('reported_by', '==', user_id)
ReportsOf(post_id, user_id) ==
    {r \in reports : r.post_id = post_id /\ r.reported_by = user_id}

\* db.collection('reports').document(report_id).update({'status': st, ...})
UpdateStatus(report_id, st) ==
    {IF r.report_id = report_id THEN [r EXCEPT !.status = st] ELSE r : r \in reports}

\* A create_report request reaches a free process: verify_token, then the
\* reason is tested against VALID_REASONS.
create_report_receive(a) ==
    /\ Free(a)
    /\ served < MaxReportRequests
    /\ served' = served + 1
    /\ \E t \in Tokens, post_id \in PostIds, why \in Reasons :
         Accept(a, "create_report", t, post_id, why, why \notin VALID_REASONS, "post_get")
    /\ UNCHANGED <<reports, comments, admins, blacklists, clock, issued, history>>
    /\ UNCHANGED <<users, posts, uuids>>
    /\ UNCHANGED community_frame

\* The reported post is read: a missing post and a post marked is_deleted
\* answer 404.
create_report_post_get(a) ==
    /\ Doing(a, "create_report", "post_get")
    /\ \E fs \in FirestoreOutcomes :
         IF fs # "ok" THEN Reply(a, 500)
         ELSE IF PostDoc(agents[a].id) = {} THEN Reply(a, 404)
         ELSE IF \E q \in PostDoc(agents[a].id) : q.is_deleted THEN Reply(a, 404)
         ELSE Goto(a, "reports_query")
    /\ UNCHANGED <<reports, comments, admins, blacklists, clock, issued, history>>
    /\ UNCHANGED <<users, posts, uuids, served>>
    /\ UNCHANGED community_frame

\* The query for a report of this user on this post: with one, the handler
\* answers 400 "Ya has reportado este post previamente".
create_report_query(a) ==
    /\ Doing(a, "create_report", "reports_query")
    /\ \E fs \in FirestoreOutcomes :
         IF fs # "ok" THEN Reply(a, 500)
         ELSE IF ReportsOf(agents[a].id, agents[a].user_id) # {} THEN Reply(a, 400)
         ELSE Goto(a, "report_set")
    /\ UNCHANGED <<reports, comments, admins, blacklists, clock, issued, history>>
    /\ UNCHANGED <<users, posts, uuids, served>>
    /\ UNCHANGED community_frame

\* db.collection('reports').document(report_id).set(report_data), report_id
\* new; the handler answers 201.
create_report_set(a) ==
    /\ Doing(a, "create_report", "report_set")
    /\ uuids' = uuids + 1
    /\ \E fs \in FirestoreOutcomes :
         IF fs # "ok" THEN Reply(a, 500) /\ UNCHANGED reports
         ELSE /\ reports' = reports \cup
                              {ReportData(uuids + 1, agents[a].id, agents[a].user_id)}
              /\ Reply(a, 201)
    /\ UNCHANGED <<comments, admins, blacklists, clock, issued, history>>
    /\ UNCHANGED <<users, posts, served>>
    /\ UNCHANGED community_frame

\* The report ids a request may name: the first two ids create_report may
\* draw.
ReportIds == {ExistingPostId + 1, ExistingPostId + 2}

\* An update_report_status request reaches a free process: verify_token,
\* then the status is tested against ['reviewed', 'resolved'].
update_report_status_receive(a) ==
    /\ Free(a)
    /\ served < MaxReportRequests
    /\ served' = served + 1
    /\ \E t \in Tokens, report_id \in ReportIds, st \in RequestedStatuses :
         Accept(a, "update_report_status", t, report_id, st, st \notin AcceptedStatuses,
                "user_get")
    /\ UNCHANGED <<reports, comments, admins, blacklists, clock, issued, history>>
    /\ UNCHANGED <<users, posts, uuids>>
    /\ UNCHANGED community_frame

\* The caller's users document is read: without one the handler answers
\* 404, without is_admin 403.
update_report_status_user_get(a) ==
    /\ Doing(a, "update_report_status", "user_get")
    /\ \E fs \in FirestoreOutcomes :
         IF fs # "ok" THEN Reply(a, 500)
         ELSE IF agents[a].user_id \notin users THEN Reply(a, 404)
         ELSE IF agents[a].user_id \notin admins THEN Reply(a, 403)
         ELSE Goto(a, "report_get")
    /\ UNCHANGED <<reports, comments, admins, blacklists, clock, issued, history>>
    /\ UNCHANGED <<users, posts, uuids, served>>
    /\ UNCHANGED community_frame

\* The report is read: a missing report answers 404.
update_report_status_report_get(a) ==
    /\ Doing(a, "update_report_status", "report_get")
    /\ \E fs \in FirestoreOutcomes :
         IF fs # "ok" THEN Reply(a, 500)
         ELSE IF \A r \in reports : r.report_id # agents[a].id THEN Reply(a, 404)
         ELSE Goto(a, "report_update")
    /\ UNCHANGED <<reports, comments, admins, blacklists, clock, issued, history>>
    /\ UNCHANGED <<users, posts, uuids, served>>
    /\ UNCHANGED community_frame

\* update({'status': request.status, 'reviewed_at': ..., 'reviewed_by': ...})
update_report_status_update(a) ==
    /\ Doing(a, "update_report_status", "report_update")
    /\ \E fs \in FirestoreOutcomes :
         IF fs # "ok" THEN Reply(a, 500) /\ UNCHANGED reports
         ELSE /\ reports' = UpdateStatus(agents[a].id, agents[a].arg)
              /\ Reply(a, 200)
    /\ UNCHANGED <<comments, admins, blacklists, clock, issued, history>>
    /\ UNCHANGED <<users, posts, uuids, served>>
    /\ UNCHANGED community_frame

----------------------------------------------------------------------------
(* The comment handlers: create_comment and delete_comment *)

\* How many comment requests the model serves.
MaxCommentRequests == 3

\* The comment ids a request may name: the first two ids create_comment may
\* draw.
CommentIds == {ExistingPostId + 1, ExistingPostId + 2}

\* The document create_comment writes.
CommentData(comment_id, post_id, user_id) ==
    [comment_id |-> comment_id, post_id |-> post_id, user_id |-> user_id,
     is_deleted |-> FALSE]

\* db.collection('comments').document(comment_id).get()
CommentDoc(comment_id) == {c \in comments : c.comment_id = comment_id}

\* db.collection('posts').document(post_id).update({'comments_count': n});
\* update fails on a document that does not exist.
UpdateCommentsCount(post_id, n) ==
    {IF q.post_id = post_id THEN [q EXCEPT !.comments_count = n] ELSE q : q \in posts}

\* A create_comment request reaches a free process; verify_token runs.
create_comment_receive(a) ==
    /\ Free(a)
    /\ served < MaxCommentRequests
    /\ served' = served + 1
    /\ \E t \in Tokens, post_id \in PostIds :
         Accept(a, "create_comment", t, post_id, "-", FALSE, "post_get")
    /\ UNCHANGED <<reports, comments, admins, blacklists, clock, issued, history>>
    /\ UNCHANGED <<users, posts, uuids>>
    /\ UNCHANGED community_frame

\* The post is read and kept in post_data: a missing post and a post marked
\* is_deleted answer 404.
create_comment_post_get(a) ==
    /\ Doing(a, "create_comment", "post_get")
    /\ \E fs \in FirestoreOutcomes :
         IF fs # "ok" THEN Reply(a, 500)
         ELSE IF PostDoc(agents[a].id) = {} THEN Reply(a, 404)
         ELSE LET post == CHOOSE q \in PostDoc(agents[a].id) : TRUE IN
              IF post.is_deleted THEN Reply(a, 404)
              ELSE agents' = [agents EXCEPT ![a].count = post.comments_count,
                                            ![a].at = "user_get"]
    /\ UNCHANGED <<reports, comments, admins, blacklists, clock, issued, history>>
    /\ UNCHANGED <<users, posts, uuids, served>>
    /\ UNCHANGED community_frame

\* The author's users document is read for the alias.
create_comment_user_get(a) ==
    /\ Doing(a, "create_comment", "user_get")
    /\ \E fs \in FirestoreOutcomes :
         IF fs # "ok" THEN Reply(a, 500)
         ELSE IF agents[a].user_id \notin users THEN Reply(a, 404)
         ELSE Goto(a, "comment_set")
    /\ UNCHANGED <<reports, comments, admins, blacklists, clock, issued, history>>
    /\ UNCHANGED <<users, posts, uuids, served>>
    /\ UNCHANGED community_frame

\* db.collection('comments').document(comment_id).set(comment_data),
\* comment_id new.
create_comment_set(a) ==
    /\ Doing(a, "create_comment", "comment_set")
    /\ uuids' = uuids + 1
    /\ \E fs \in FirestoreOutcomes :
         IF fs # "ok" THEN Reply(a, 500) /\ UNCHANGED comments
         ELSE /\ comments' = comments \cup
                                {CommentData(uuids + 1, agents[a].id, agents[a].user_id)}
              /\ Goto(a, "post_update")
    /\ UNCHANGED <<reports, admins, blacklists, clock, issued, history>>
    /\ UNCHANGED <<users, posts, served>>
    /\ UNCHANGED community_frame

\* new_comments_count = post_data.get('comments_count', 0) + 1, written
\* with update; the handler answers 201.
create_comment_update(a) ==
    /\ Doing(a, "create_comment", "post_update")
    /\ \E fs \in FirestoreOutcomes :
         IF fs # "ok" \/ PostDoc(agents[a].id) = {}
         THEN Reply(a, 500) /\ UNCHANGED posts
         ELSE /\ posts' = UpdateCommentsCount(agents[a].id, agents[a].count + 1)
              /\ Reply(a, 201)
    /\ UNCHANGED <<reports, comments, admins, blacklists, clock, issued, history>>
    /\ UNCHANGED <<users, uuids, served>>
    /\ UNCHANGED community_frame

\* A delete_comment request reaches a free process; verify_token runs.
delete_comment_receive(a) ==
    /\ Free(a)
    /\ served < MaxCommentRequests
    /\ served' = served + 1
    /\ \E t \in Tokens, comment_id \in CommentIds :
         Accept(a, "delete_comment", t, comment_id, "-", FALSE, "comment_get")
    /\ UNCHANGED <<reports, comments, admins, blacklists, clock, issued, history>>
    /\ UNCHANGED <<users, posts, uuids>>
    /\ UNCHANGED community_frame

\* The comment is read and kept in comment_data: a missing comment and a
\* comment marked is_deleted answer 404, a comment of another user 403.
delete_comment_get(a) ==
    /\ Doing(a, "delete_comment", "comment_get")
    /\ \E fs \in FirestoreOutcomes :
         IF fs # "ok" THEN Reply(a, 500)
         ELSE IF CommentDoc(agents[a].id) = {} THEN Reply(a, 404)
         ELSE LET comment == CHOOSE c \in CommentDoc(agents[a].id) : TRUE IN
              IF comment.is_deleted THEN Reply(a, 404)
              ELSE IF comment.user_id # agents[a].user_id THEN Reply(a, 403)
              ELSE agents' = [agents EXCEPT ![a].found = {comment},
                                            ![a].at = "comment_update"]
    /\ UNCHANGED <<reports, comments, admins, blacklists, clock, issued, history>>
    /\ UNCHANGED <<users, posts, uuids, served>>
    /\ UNCHANGED community_frame

\* db.collection('comments').document(comment_id).update({'is_deleted': True, ...})
delete_comment_update(a) ==
    /\ Doing(a, "delete_comment", "comment_update")
    /\ \E fs \in FirestoreOutcomes :
         IF fs # "ok" THEN Reply(a, 500) /\ UNCHANGED comments
         ELSE /\ comments' = {IF c.comment_id = agents[a].id
                               THEN [c EXCEPT !.is_deleted = TRUE] ELSE c : c \in comments}
              /\ Goto(a, "post_get")
    /\ UNCHANGED <<reports, admins, blacklists, clock, issued, history>>
    /\ UNCHANGED <<users, posts, uuids, served>>
    /\ UNCHANGED community_frame

\* The post named by comment_data['post_id'] is read again; without it the
\* handler answers 200 at once.
delete_comment_post_get(a) ==
    /\ Doing(a, "delete_comment", "post_get")
    /\ \E fs \in FirestoreOutcomes, comment \in agents[a].found :
         IF fs # "ok" THEN Reply(a, 500)
         ELSE IF PostDoc(comment.post_id) = {} THEN Reply(a, 200)
         ELSE LET post == CHOOSE q \in PostDoc(comment.post_id) : TRUE IN
              agents' = [agents EXCEPT ![a].count = post.comments_count,
                                       ![a].at = "post_update"]
    /\ UNCHANGED <<reports, comments, admins, blacklists, clock, issued, history>>
    /\ UNCHANGED <<users, posts, uuids, served>>
    /\ UNCHANGED community_frame

\* new_comments_count = max(0, current_comments - 1), written with update.
delete_comment_post_update(a) ==
    /\ Doing(a, "delete_comment", "post_update")
    /\ \E fs \in FirestoreOutcomes, comment \in agents[a].found :
         IF fs # "ok" \/ PostDoc(comment.post_id) = {}
         THEN Reply(a, 500) /\ UNCHANGED posts
         ELSE /\ posts' = UpdateCommentsCount(comment.post_id, Decrement(agents[a].count))
              /\ Reply(a, 200)
    /\ UNCHANGED <<reports, comments, admins, blacklists, clock, issued, history>>
    /\ UNCHANGED <<users, uuids, served>>
    /\ UNCHANGED community_frame

----------------------------------------------------------------------------
(* Deleting and reading posts: delete_post, get_post_by_id, get_posts_feed *)

\* How many of these requests the model serves.
MaxDeleteRequests == 3

\* The post ids a request of this section may name: two posts that exist
\* and one that does not.
NamedPostIds == PostIds \cup {ExistingPostId + 2}

\* post_data['user_id'] != current_user['uid'] answers 403.
Owns_anyone(post, user_id) == TRUE
Owns(post, user_id) == post.user_id = user_id

\* What Depends(get_current_user_optional) hands to the public handlers, an
\* Optional[dict]: no user, or the uid of one.
OptionalUsers == {"-"} \cup Uids

\* db.collection('posts').where('is_deleted', '==', False)
Listed(collection) == {q \in collection : ~q.is_deleted}

\* .order_by('created_at', direction='DESCENDING'), list(query.stream()):
\* later posts, which have the greater ids here, come first.
Descending(collection) ==
    CHOOSE s \in [1 .. Cardinality(collection) -> collection] :
        \A i, j \in DOMAIN s : i < j => s[i].post_id > s[j].post_id

\* all_posts[offset:offset + page_size] with offset = (page - 1) * page_size
PageOf(all_posts, page, page_size) ==
    {all_posts[i] : i \in {k \in DOMAIN all_posts :
                             k > (page - 1) * page_size /\ k <= page * page_size}}

\* A delete_post request reaches a free process; verify_token runs.
delete_post_receive(a) ==
    /\ Free(a)
    /\ served < MaxDeleteRequests
    /\ served' = served + 1
    /\ \E t \in Tokens, post_id \in NamedPostIds :
         Accept(a, "delete_post", t, post_id, "-", FALSE, "post_get")
    /\ UNCHANGED <<reports, comments, admins, blacklists, clock, issued, history>>
    /\ UNCHANGED <<users, posts, uuids>>
    /\ UNCHANGED community_frame

\* The post is read: a missing post answers 404, a post of another user
\* 403; is_deleted is not looked at.
delete_post_get(a) ==
    /\ Doing(a, "delete_post", "post_get")
    /\ \E fs \in FirestoreOutcomes :
         IF fs # "ok" THEN Reply(a, 500)
         ELSE IF PostDoc(agents[a].id) = {} THEN Reply(a, 404)
         ELSE LET post == CHOOSE q \in PostDoc(agents[a].id) : TRUE IN
              IF ~Owns(post, agents[a].user_id) THEN Reply(a, 403)
              ELSE Goto(a, "post_update")
    /\ UNCHANGED <<reports, comments, admins, blacklists, clock, issued, history>>
    /\ UNCHANGED <<users, posts, uuids, served>>
    /\ UNCHANGED community_frame

\* update({'is_deleted': True, 'deleted_at': ...}); update fails on a
\* document that does not exist.
delete_post_update(a) ==
    /\ Doing(a, "delete_post", "post_update")
    /\ \E fs \in FirestoreOutcomes :
         IF fs # "ok" \/ PostDoc(agents[a].id) = {}
         THEN Reply(a, 500) /\ UNCHANGED posts
         ELSE /\ posts' = {IF q.post_id = agents[a].id
                            THEN [q EXCEPT !.is_deleted = TRUE] ELSE q : q \in posts}
              /\ Reply(a, 200)
    /\ UNCHANGED <<reports, comments, admins, blacklists, clock, issued, history>>
    /\ UNCHANGED <<users, uuids, served>>
    /\ UNCHANGED community_frame

\* A get_post_by_id request reaches a free process, with or without a user.
get_post_by_id_receive(a) ==
    /\ Free(a)
    /\ served < MaxDeleteRequests
    /\ served' = served + 1
    /\ \E current_user \in OptionalUsers, post_id \in NamedPostIds :
         agents' = [agents EXCEPT ![a] =
            [IdleAgent EXCEPT !.op = "get_post_by_id", !.id = post_id,
                              !.user_id = current_user, !.at = "post_get"]]
    /\ UNCHANGED <<reports, comments, admins, blacklists, clock, issued, history>>
    /\ UNCHANGED <<users, posts, uuids>>
    /\ UNCHANGED community_frame

\* The post is read: a missing post and a post marked is_deleted answer
\* 404; otherwise the post is returned. The query for the user's like that
\* follows only sets user_liked, and its failure is swallowed.
get_post_by_id_get(a) ==
    /\ Doing(a, "get_post_by_id", "post_get")
    /\ \E fs \in FirestoreOutcomes :
         IF fs # "ok" THEN Reply(a, 500)
         ELSE IF Listed(PostDoc(agents[a].id)) = {} THEN Reply(a, 404)
         ELSE agents' = [agents EXCEPT ![a].found = PostDoc(agents[a].id),
                                       ![a].at = "responded", ![a].response = 200]
    /\ UNCHANGED <<reports, comments, admins, blacklists, clock, issued, history>>
    /\ UNCHANGED <<users, posts, uuids, served>>
    /\ UNCHANGED community_frame

\* A get_posts_feed request reaches a free process, with or without a user;
\* page and page_size are at least 1.
get_posts_feed_receive(a) ==
    /\ Free(a)
    /\ served < MaxDeleteRequests
    /\ served' = served + 1
    /\ \E current_user \in OptionalUsers, page \in {1, 2}, page_size \in {1, 2} :
         agents' = [agents EXCEPT ![a] =
            [IdleAgent EXCEPT !.op = "get_posts_feed", !.id = page, !.count = page_size,
                              !.user_id = current_user, !.at = "posts_query"]]
    /\ UNCHANGED <<reports, comments, admins, blacklists, clock, issued, history>>
    /\ UNCHANGED <<users, posts, uuids>>
    /\ UNCHANGED community_frame

\* The query is streamed and the page cut out of it. The query for the
\* user's likes that follows only sets user_liked, and its failure is
\* swallowed.
get_posts_feed_query(a) ==
    /\ Doing(a, "get_posts_feed", "posts_query")
    /\ \E fs \in FirestoreOutcomes :
         IF fs # "ok" THEN Reply(a, 500)
         ELSE agents' = [agents EXCEPT
                ![a].found = PageOf(Descending(Listed(posts)), agents[a].id, agents[a].count),
                ![a].at = "responded", ![a].response = 200]
    /\ UNCHANGED <<reports, comments, admins, blacklists, clock, issued, history>>
    /\ UNCHANGED <<users, posts, uuids, served>>
    /\ UNCHANGED community_frame

----------------------------------------------------------------------------
(* Accounts and tokens: login, logout, delete_account, and create_post
   served next to them *)

\* How many account requests the model serves.
MaxAccountRequests == 3

\* settings.jwt_expiration_hours, which create_access_token does not use.
jwt_expiration_hours == 24

\* The clock is read every half expiration period, up to this hour.
MaxHours == 36

\* The tokens login handed out, and what a client may present: one of
\* them, or a token that was never signed.
IssuedTokens == {i.token : i \in issued}
Presented == IssuedTokens \cup {Forged("u1")}

\* The successful calls recorded in history.
Returned(handler, token) == [op |-> handler, token |-> token]

\* Time passes.
tick ==
    /\ clock < MaxHours
    /\ clock' = clock + (jwt_expiration_hours \div 2)
    /\ UNCHANGED <<reports, comments, admins, agents, blacklists, issued, history>>
    /\ UNCHANGED <<users, posts, uuids, served>>
    /\ UNCHANGED community_frame

\* A server process is started again: its module-level token_blacklist is
\* the empty set once more.
restart(a) ==
    /\ Free(a)
    /\ blacklists[a] # {}
    /\ blacklists' = [blacklists EXCEPT ![a] = {}]
    /\ UNCHANGED <<reports, comments, admins, agents, clock, issued, history>>
    /\ UNCHANGED <<users, posts, uuids, served>>
    /\ UNCHANGED community_frame

\* login: the identity provider accepts the password of uid, the users
\* document is read (404 without it), and create_access_token signs the
\* payload, in which there is no time: every login of a user yields the
\* same token.
login(a) ==
    /\ Free(a)
    /\ served < MaxAccountRequests
    /\ served' = served + 1
    /\ \E uid \in Uids, fs \in FirestoreOutcomes :
         LET fresh == [IdleAgent EXCEPT !.op = "login", !.at = "responded"] IN
         IF fs # "ok"
         THEN agents' = [agents EXCEPT ![a] = [fresh EXCEPT !.response = 500]]
              /\ UNCHANGED issued
         ELSE IF uid \notin users
         THEN agents' = [agents EXCEPT ![a] = [fresh EXCEPT !.response = 404]]
              /\ UNCHANGED issued
         ELSE /\ agents' = [agents EXCEPT ![a] =
                    [fresh EXCEPT !.token = Jwt(uid), !.response = 200]]
              /\ issued' = issued \cup {[token |-> Jwt(uid), hour |-> clock]}
    /\ UNCHANGED <<reports, comments, admins, blacklists, clock, history>>
    /\ UNCHANGED <<users, posts, uuids>>
    /\ UNCHANGED community_frame

\* logout on process a: verify_token, then invalidate_token adds the token
\* to the blacklist of that process; every exception becomes a 500.
logout_on(a) ==
    /\ Free(a)
    /\ served < MaxAccountRequests
    /\ served' = served + 1
    /\ \E t \in Presented :
         LET v == verify_token(t, blacklists[a])
             fresh == [IdleAgent EXCEPT !.op = "logout", !.token = t, !.at = "responded"]
         IN  IF v.raised
             THEN /\ agents' = [agents EXCEPT ![a] = [fresh EXCEPT !.response = 500]]
                  /\ UNCHANGED <<blacklists, history>>
             ELSE /\ agents' = [agents EXCEPT ![a] =
                        [fresh EXCEPT !.user_id = v.value, !.hour = clock,
                                      !.response = 200]]
                  /\ blacklists' = [blacklists EXCEPT ![a] = @ \cup {t}]
                  /\ history' = history \cup {Returned("logout", t)}
    /\ UNCHANGED <<reports, comments, admins, clock, issued>>
    /\ UNCHANGED <<users, posts, uuids>>
    /\ UNCHANGED community_frame

\* A delete_account request reaches a free process; verify_token runs.
delete_account_receive(a) ==
    /\ Free(a)
    /\ served < MaxAccountRequests
    /\ served' = served + 1
    /\ \E t \in Presented :
         Accept(a, "delete_account", t, 0, "-", FALSE, "user_get")
    /\ UNCHANGED <<reports, comments, admins, blacklists, clock, issued, history>>
    /\ UNCHANGED <<users, posts, uuids>>
    /\ UNCHANGED community_frame

\* The users document is read: without it the handler answers 404.
delete_account_user_get(a) ==
    /\ Doing(a, "delete_account", "user_get")
    /\ \E fs \in FirestoreOutcomes :
         IF fs # "ok" THEN Reply(a, 500)
         ELSE IF agents[a].user_id \notin users THEN Reply(a, 404)
         ELSE Goto(a, "posts_query")
    /\ UNCHANGED <<reports, comments, admins, blacklists, clock, issued, history>>
    /\ UNCHANGED <<users, posts, uuids, served>>
    /\ UNCHANGED community_frame

\* posts_query = db.collection('posts').where('user_id', '==', uid).stream():
\* the posts of the user as they are when the query runs.
delete_account_posts_query(a) ==
    /\ Doing(a, "delete_account", "posts_query")
    /\ \E fs \in FirestoreOutcomes :
         IF fs # "ok" THEN Reply(a, 500)
         ELSE agents' = [agents EXCEPT
                ![a].found = {q.post_id : q \in {p \in posts : p.user_id = agents[a].user_id}},
                ![a].at = "posts_delete"]
    /\ UNCHANGED <<reports, comments, admins, blacklists, clock, issued, history>>
    /\ UNCHANGED <<users, posts, uuids, served>>
    /\ UNCHANGED community_frame

\* for post in posts_query: post.reference.delete()
delete_account_posts_delete(a) ==
    /\ Doing(a, "delete_account", "posts_delete")
    /\ \E fs \in FirestoreOutcomes :
         IF fs # "ok" THEN Reply(a, 500) /\ UNCHANGED posts
         ELSE /\ posts' = {q \in posts : q.post_id \notin agents[a].found}
              /\ Goto(a, "user_delete")
    /\ UNCHANGED <<reports, comments, admins, blacklists, clock, issued, history>>
    /\ UNCHANGED <<users, uuids, served>>
    /\ UNCHANGED community_frame

\* db.collection('users').document(uid).delete()
delete_account_user_delete(a) ==
    /\ Doing(a, "delete_account", "user_delete")
    /\ \E fs \in FirestoreOutcomes :
         IF fs # "ok" THEN Reply(a, 500) /\ UNCHANGED <<users, admins>>
         ELSE /\ users' = users \ {agents[a].user_id}
              /\ admins' = admins \ {agents[a].user_id}
              /\ Goto(a, "auth_delete")
    /\ UNCHANGED <<reports, comments, blacklists, clock, issued, history>>
    /\ UNCHANGED <<posts, uuids, served>>
    /\ UNCHANGED community_frame

\* auth.delete_user(uid), UserNotFoundError being swallowed, then
\* invalidate_token(token) on this process, and the answer.
delete_account_finish(a) ==
    /\ Doing(a, "delete_account", "auth_delete")
    /\ \E fs \in FirestoreOutcomes :
         IF fs # "ok" THEN Reply(a, 500) /\ UNCHANGED <<blacklists, history>>
         ELSE /\ blacklists' = [blacklists EXCEPT ![a] = @ \cup {agents[a].token}]
              /\ history' = history \cup {Returned("delete_account", agents[a].token)}
              /\ Reply(a, 200)
    /\ UNCHANGED <<reports, comments, admins, clock, issued>>
    /\ UNCHANGED <<users, posts, uuids, served>>
    /\ UNCHANGED community_frame

\* The vendors' answers to one text when no credential is configured: only
\* Purgomalum is asked.
PurgomalumAnswers ==
    {[m \in Range(Pipeline) |-> IF m = "purgomalum" THEN h ELSE Exception("Timeout")] :
     h \in SampleHttp("purgomalum")}

\* A create_post request reaches a free process: verify_token, then
\* moderate_content, whose verdict may reject the text (400).
create_post_receive(a) ==
    /\ Free(a)
    /\ served < MaxAccountRequests
    /\ served' = served + 1
    /\ \E t \in Presented, answers \in PurgomalumAnswers :
         LET v == verify_token(t, blacklists[a])
             r == moderate_content(service, answers)
             fresh == [IdleAgent EXCEPT !.op = "create_post", !.token = t]
             known == [fresh EXCEPT !.user_id = v.value, !.hour = clock]
         IN  agents' = [agents EXCEPT ![a] =
                IF v.raised
                THEN [fresh EXCEPT !.at = "responded", !.response = v.status_code]
                ELSE IF r.raised
                THEN [known EXCEPT !.at = "responded", !.response = 500]
                ELSE IF Rejects(r.value)
                THEN [known EXCEPT !.at = "responded", !.response = 400]
                ELSE [known EXCEPT !.at = "user_get"]]
    /\ UNCHANGED <<reports, comments, admins, blacklists, clock, issued, history>>
    /\ UNCHANGED <<users, posts, uuids>>
    /\ UNCHANGED community_frame

\* The author's users document is read for the alias: without it the
\* handler answers 404.
create_post_user_get(a) ==
    /\ Doing(a, "create_post", "user_get")
    /\ \E fs \in FirestoreOutcomes :
         IF fs # "ok" THEN Reply(a, 500)
         ELSE IF agents[a].user_id \notin users THEN Reply(a, 404)
         ELSE Goto(a, "post_set")
    /\ UNCHANGED <<reports, comments, admins, blacklists, clock, issued, history>>
    /\ UNCHANGED <<users, posts, uuids, served>>
    /\ UNCHANGED community_frame

\* db.collection('posts').document(post_id).set(post_data), post_id new.
create_post_write(a) ==
    /\ Doing(a, "create_post", "post_set")
    /\ uuids' = uuids + 1
    /\ \E fs \in FirestoreOutcomes :
         IF fs # "ok" THEN Reply(a, 500) /\ UNCHANGED posts
         ELSE /\ posts' = posts \cup {PostData(uuids + 1, agents[a].user_id, NoneUrl)}
              /\ Reply(a, 201)
    /\ UNCHANGED <<reports, comments, admins, blacklists, clock, issued, history>>
    /\ UNCHANGED <<users, served>>
    /\ UNCHANGED community_frame

\* Nothing reported or commented, nobody logged in or out, every process
\* free.
InitCommunity ==
    /\ reports = {}
    /\ comments = {}
    /\ admins = {}
    /\ agents = [a \in Workers |-> IdleAgent]
    /\ blacklists = [a \in Workers |-> {}]
    /\ clock = 0
    /\ issued = {}
    /\ history = {}

----------------------------------------------------------------------------
(* The specification *)

\* The module-level singleton is built once from the settings read at import.
Init ==
    /\ settings \in Settings
    /\ service = ModerationService_init(settings)
    /\ op = "none"
    /\ pc = "idle"
    /\ flagged_by = <<>>
    /\ reason = NoneStr
    /\ calls = <<>>
    /\ ret = NoReturns
    /\ http = NoHttp
    /\ caught = {}
    /\ verdict = NoVerdict
    /\ InitPosts
    /\ users = Uids
    /\ InitCallers
    /\ InitLikes
    /\ InitCommunity

\* One call of the moderation service, whoever makes it.
Next ==
    \/ call_moderate_content /\ UNCHANGED outside_moderation
    \/ moderate_content_purgomalum /\ UNCHANGED outside_moderation
    \/ moderate_content_moderatecontent /\ UNCHANGED outside_moderation
    \/ moderate_content_openai /\ UNCHANGED outside_moderation
    \/ moderate_content_sightengine /\ UNCHANGED outside_moderation
    \/ moderate_content_return /\ UNCHANGED outside_moderation
    \/ call_moderate_image /\ UNCHANGED outside_moderation
    \/ moderate_image_check /\ UNCHANGED outside_moderation
    \/ moderate_image_return /\ UNCHANGED outside_moderation

Spec == Init /\ [][Next]_vars

\* The API serving post-creation and logout requests one after the other.
\* The settings with every credential either unset or set to a key.
ApiSettings == {s \in Settings : \A k \in DOMAIN s : s[k] # Str("")}

InitApi ==
    /\ settings \in ApiSettings
    /\ service = ModerationService_init(settings)
    /\ op = "none"
    /\ pc = "idle"
    /\ flagged_by = <<>>
    /\ reason = NoneStr
    /\ calls = <<>>
    /\ ret = NoReturns
    /\ http = NoHttp
    /\ caught = {}
    /\ verdict = NoVerdict
    /\ InitPosts
    /\ InitCallers
    /\ InitLikes
    /\ InitCommunity

NextApi ==
    \/ receive_request
    \/ logout
    \/ create_post_verify_token
    \/ create_post_moderate_content
    \/ create_post_user_doc
    \/ create_post_set
    \/ create_post_with_image_verify_token
    \/ create_post_with_image_validate
    \/ create_post_with_image_moderate_content
    \/ create_post_with_image_upload
    \/ create_post_with_image_moderate_image
    \/ create_post_with_image_delete_image
    \/ create_post_with_image_user_doc
    \/ create_post_with_image_set

SpecApi == InitApi /\ [][NextApi]_vars

\* Two handlers inside the moderation service at once, their steps
\* interleaved in every order.
InitConcurrent ==
    /\ settings \in ApiSettings
    /\ service = ModerationService_init(settings)
    /\ op = "none"
    /\ pc = "idle"
    /\ flagged_by = <<>>
    /\ reason = NoneStr
    /\ calls = <<>>
    /\ ret = NoReturns
    /\ http = NoHttp
    /\ caught = {}
    /\ verdict = NoVerdict
    /\ InitPosts
    /\ users = Uids
    /\ InitCallers
    /\ InitLikes
    /\ InitCommunity

NextConcurrent ==
    \/ \E c \in Callers : concurrent_call(c)
    \/ \E c \in Callers : concurrent_check(c)
    \/ \E c \in Callers : concurrent_image_check(c)
    \/ \E c \in Callers : concurrent_return(c)

SpecConcurrent == InitConcurrent /\ [][NextConcurrent]_vars

\* The like endpoints served by several workers; one post exists, written
\* by create_post, and nobody has liked it.
InitLikesApi ==
    /\ settings \in {s \in Settings : \A k \in DOMAIN s : s[k] = NoneStr}
    /\ service = ModerationService_init(settings)
    /\ op = "none"
    /\ pc = "idle"
    /\ flagged_by = <<>>
    /\ reason = NoneStr
    /\ calls = <<>>
    /\ ret = NoReturns
    /\ http = NoHttp
    /\ caught = {}
    /\ verdict = NoVerdict
    /\ token_blacklist = {}
    /\ users = Uids
    /\ posts = {PostData(ExistingPostId, "u1", NoneUrl)}
    /\ blobs = {}
    /\ request = NoRequest
    /\ hpc = "idle"
    /\ locals = NoLocals
    /\ events = <<>>
    /\ response = 0
    /\ uuids = ExistingPostId
    /\ served = 0
    /\ InitCallers
    /\ InitLikes
    /\ InitCommunity

NextLikes ==
    \/ \E w \in Workers : likes_receive(w)
    \/ \E w \in Workers : like_post_get(w)
    \/ \E w \in Workers : like_post_query(w)
    \/ \E w \in Workers : like_post_set(w)
    \/ \E w \in Workers : like_post_update(w)
    \/ \E w \in Workers : unlike_post_get(w)
    \/ \E w \in Workers : unlike_post_query(w)
    \/ \E w \in Workers : unlike_post_delete(w)
    \/ \E w \in Workers : unlike_post_update(w)

SpecLikes == InitLikesApi /\ [][NextLikes]_vars

\* The service at rest with no moderation credential configured: no call
\* of the moderation service, no post-creation or like request in flight.
InitQuiet ==
    /\ settings \in {s \in Settings : \A k \in DOMAIN s : s[k] = NoneStr}
    /\ service = ModerationService_init(settings)
    /\ op = "none"
    /\ pc = "idle"
    /\ flagged_by = <<>>
    /\ reason = NoneStr
    /\ calls = <<>>
    /\ ret = NoReturns
    /\ http = NoHttp
    /\ caught = {}
    /\ verdict = NoVerdict
    /\ token_blacklist = {}
    /\ blobs = {}
    /\ request = NoRequest
    /\ hpc = "idle"
    /\ locals = NoLocals
    /\ events = <<>>
    /\ response = 0
    /\ served = 0
    /\ InitCallers
    /\ InitLikes

\* The report endpoints served by several processes; one post exists,
\* nobody has reported it, and u1 is an administrator.
InitReports ==
    /\ InitQuiet
    /\ users = Uids
    /\ posts = {PostData(ExistingPostId, "u1", NoneUrl)}
    /\ uuids = ExistingPostId
    /\ reports = {}
    /\ comments = {}
    /\ admins = {"u1"}
    /\ agents = [a \in Workers |-> IdleAgent]
    /\ blacklists = [a \in Workers |-> {}]
    /\ clock = 0
    /\ issued = {}
    /\ history = {}

NextReports ==
    \/ \E a \in Workers : create_report_receive(a)
    \/ \E a \in Workers : create_report_post_get(a)
    \/ \E a \in Workers : create_report_query(a)
    \/ \E a \in Workers : create_report_set(a)
    \/ \E a \in Workers : update_report_status_receive(a)
    \/ \E a \in Workers : update_report_status_user_get(a)
    \/ \E a \in Workers : update_report_status_report_get(a)
    \/ \E a \in Workers : update_report_status_update(a)

SpecReports == InitReports /\ [][NextReports]_vars

\* The comment endpoints served by several processes; one post exists and
\* nobody has commented on it.
InitComments == InitReports

NextComments ==
    \/ \E a \in Workers : create_comment_receive(a)
    \/ \E a \in Workers : create_comment_post_get(a)
    \/ \E a \in Workers : create_comment_user_get(a)
    \/ \E a \in Workers : create_comment_set(a)
    \/ \E a \in Workers : create_comment_update(a)
    \/ \E a \in Workers : delete_comment_receive(a)
    \/ \E a \in Workers : delete_comment_get(a)
    \/ \E a \in Workers : delete_comment_update(a)
    \/ \E a \in Workers : delete_comment_post_get(a)
    \/ \E a \in Workers : delete_comment_post_update(a)

SpecComments == InitComments /\ [][NextComments]_vars

\* The endpoints that delete and read posts, served by several processes;
\* u1 and u2 have one post each.
InitDelete ==
    /\ InitQuiet
    /\ users = Uids
    /\ posts = {PostData(ExistingPostId, "u1", NoneUrl),
                PostData(ExistingPostId + 1, "u2", NoneUrl)}
    /\ uuids = ExistingPostId + 1
    /\ InitCommunity

NextDelete ==
    \/ \E a \in Workers : delete_post_receive(a)
    \/ \E a \in Workers : delete_post_get(a)
    \/ \E a \in Workers : delete_post_update(a)
    \/ \E a \in Workers : get_post_by_id_receive(a)
    \/ \E a \in Workers : get_post_by_id_get(a)
    \/ \E a \in Workers : get_posts_feed_receive(a)
    \/ \E a \in Workers : get_posts_feed_query(a)

SpecDelete == InitDelete /\ [][NextDelete]_vars

\* The account endpoints and create_post served by several processes while
\* time passes; u1 has one post and nobody has logged in.
InitAccount ==
    /\ InitQuiet
    /\ users = Uids
    /\ posts = {PostData(ExistingPostId, "u1", NoneUrl)}
    /\ uuids = ExistingPostId
    /\ InitCommunity

NextAccount ==
    \/ tick
    \/ \E a \in Workers : restart(a)
    \/ \E a \in Workers : login(a)
    \/ \E a \in Workers : logout_on(a)
    \/ \E a \in Workers : delete_account_receive(a)
    \/ \E a \in Workers : delete_account_user_get(a)
    \/ \E a \in Workers : delete_account_posts_query(a)
    \/ \E a \in Workers : delete_account_posts_delete(a)
    \/ \E a \in Workers : delete_account_user_delete(a)
    \/ \E a \in Workers : delete_account_finish(a)
    \/ \E a \in Workers : create_post_receive(a)
    \/ \E a \in Workers : create_post_user_get(a)
    \/ \E a \in Workers : create_post_write(a)

SpecAccount == InitAccount /\ [][NextAccount]_vars

----------------------------------------------------------------------------
(* Vocabulary of the properties *)

\* A credential is configured when it is set to a non-empty value.
Configured(k) == k.some /\ k.s # ""

SightengineConfigured ==
    Configured(settings.sightengine_api_user) /\ Configured(settings.sightengine_api_secret)

\* The checkers a moderate_content call consults, from the service's flags.
EnabledMethod(m) ==
    CASE m = "purgomalum" -> service.purgomalum_enabled
      [] m = "moderatecontent" -> service.moderatecontent_enabled
      [] m = "openai_moderation" -> service.openai_enabled
      [] m = "sightengine_text" -> service.sightengine_enabled

\* The checker method returned False to the running call.
FlaggedMethod(m) == ret[m] = "False"

TextDone == op = "moderate_content" /\ pc = "done"
ImageDone == op = "moderate_image" /\ pc = "done"

Names(ms) == [i \in 1..Len(ms) |-> Name(ms[i])]

----------------------------------------------------------------------------
(* Properties of the verdict *)

\* C1: every verdict returned by moderate_content or moderate_image has
\* is_safe true exactly when its flagged_by is empty, whatever checkers are
\* enabled and whatever each of them answered.
C1_SafeIffNotFlagged ==
    pc = "done" => (verdict.is_safe <=> verdict.flagged_by = <<>>)

\* A text verdict with one flagger, one checker that passed and one whose
\* request timed out.
C1_Witness ==
    /\ TextDone
    /\ verdict.flagged_by = <<"OpenAI">>
    /\ ~verdict.is_safe
    /\ ret["purgomalum"] = "True"
    /\ "sightengine_text" \in caught
    /\ http.kind = "Timeout"

\* C2 as stated: every verdict has a reason exactly when flagged_by is not
\* empty.
C2_ReasonIffFlagged ==
    pc = "done" => (verdict.reason.some <=> verdict.flagged_by # <<>>)

\* C2 amended: a verdict of moderate_content, and a verdict of moderate_image
\* with Sightengine configured, has a reason exactly when flagged_by is not
\* empty; the verdict of moderate_image without Sightengine has a reason and
\* an empty flagged_by.
C2_ReasonIffFlaggedOrUnavailable ==
    pc = "done" =>
        IF op = "moderate_image" /\ ~SightengineConfigured
        THEN verdict.reason.some /\ verdict.flagged_by = <<>>
        ELSE verdict.reason.some <=> verdict.flagged_by # <<>>

\* A text verdict whose first flagger is not the first checker.
C2_Witness ==
    /\ TextDone
    /\ verdict.flagged_by = <<"ModerateContent", "OpenAI">>
    /\ verdict.reason.some

\* C3: the flagged_by of a moderate_content verdict lists exactly the
\* checkers that returned False, in pipeline order, and its reason is the
\* message of the first of them.
C3_FlaggersInOrderFirstReason ==
    TextDone =>
        LET flaggers == SelectSeq(Pipeline, FlaggedMethod)
        IN  /\ verdict.flagged_by = Names(flaggers)
            /\ flaggers # <<>> => verdict.reason = Str(Message(flaggers[1]))

\* Three checkers flagged, the first of them in second position.
C3_Witness ==
    /\ TextDone
    /\ verdict.flagged_by = <<"ModerateContent", "OpenAI", "Sightengine">>
    /\ ret["purgomalum"] = "True"

\* C4: when every enabled checker returned True, moderate_content returns
\* is_safe = true, flagged_by = [] and reason = None.
C4_AllSafeVerdict ==
    (TextDone /\ \A m \in Range(Pipeline) : EnabledMethod(m) => ret[m] = "True")
        => verdict = ModerationResult(TRUE, NoneStr, <<>>)

\* All four checkers enabled and each returned True.
C4_Witness ==
    /\ TextDone
    /\ \A m \in Range(Pipeline) : EnabledMethod(m) /\ ret[m] = "True"
    /\ verdict.is_safe

----------------------------------------------------------------------------
(* Failures of the vendors *)

\* The request raised: a network error or a timeout.
NetworkFailure(h) == h.kind \in HttpExceptions

\* The vendor answered with a status outside 200..299.
Non2xx(h) == h.kind = "response" /\ (h.status < 200 \/ h.status > 299)

StringTokens ==
    {"\"\"", "\"safe\"", "\"adult\"", "\"teen\"", "\"false\"", "\"x\"", "\"none\"",
     "\"error\""}
ListTokens == {"[]", "[...]"}

\* A 200 answer whose body is not what the checker's vendor documents: not
\* the expected syntax, or a field of the wrong JSON type.
MalformedBody(m, h) ==
    /\ h.kind = "response" /\ h.status = HTTP_OK
    /\ CASE m = "purgomalum" ->
              Strip(Lower(h.text)) \notin {TrueText, FalseText}
         [] m = "moderatecontent" ->
              \/ ~IsDict(h.json.top)
              \/ h.json.rating \notin StringTokens \cup {Missing}
         [] m = "openai_moderation" ->
              \/ ~IsDict(h.json.top)
              \/ h.json.results \notin ListTokens
              \/ /\ h.json.results = "[...]"
                 /\ (~IsDict(h.json.first) \/ h.json.flagged \notin {"true", "false"})
         [] m = "sightengine_text" ->
              \/ ~IsDict(h.json.top)
              \/ ~IsDict(h.json.profanity) /\ h.json.profanity # Missing
              \/ h.json.matches \notin ListTokens \cup {Missing}
              \/ ~IsDict(h.json.personal) /\ h.json.personal # Missing

VendorFailure(m, h) == NetworkFailure(h) \/ Non2xx(h) \/ MalformedBody(m, h)

LastCall == calls[Len(calls)]

\* C5: a text checker whose request ended in a network error, a timeout, a
\* non-2xx status or a malformed body reports safe: it returned True, is not
\* in flagged_by and its message is not the reason.
C5_FailureReportsSafe ==
    (op = "moderate_content" /\ calls # <<>> /\ VendorFailure(LastCall, http)) =>
        /\ ret[LastCall] = "True"
        /\ Name(LastCall) \notin Range(flagged_by)
        /\ reason # Str(Message(LastCall))

\* C6: no vendor failure leaves an aggregator as an exception: a running
\* call can always take its next step, never ends raised, and what it
\* returns is a ModerationResult of a boolean, an optional string and a list
\* of checker names.
C6_NeverRaisesWellFormed ==
    /\ pc # "raised"
    /\ pc \notin {"idle", "done"} => ENABLED Next
    /\ pc = "done" =>
        /\ DOMAIN verdict = {"is_safe", "reason", "flagged_by"}
        /\ verdict.is_safe \in BOOLEAN
        /\ verdict.reason = NoneStr \/ (verdict.reason.some /\ verdict.reason.s # "")
        /\ Range(verdict.flagged_by) \subseteq {Name(m) : m \in Methods}

\* All four checkers were invoked and every one of them failed by raising.
C6_Witness ==
    /\ TextDone
    /\ Len(calls) = 4
    /\ caught = Range(Pipeline)
    /\ verdict = ModerationResult(TRUE, NoneStr, <<>>)

----------------------------------------------------------------------------
(* Which checkers run *)

\* The blocks of moderate_content that lie before position p.
StagesBefore(p) ==
    CASE p = "purgomalum" -> 0
      [] p = "moderatecontent" -> 1
      [] p = "openai_moderation" -> 2
      [] p = "sightengine_text" -> 3
      [] OTHER -> 4

\* C7: at every point of a moderate_content call the checkers invoked so far
\* are the enabled checkers of the blocks already passed, each once and in
\* pipeline order, whatever the earlier checkers answered; at the end they
\* are all the enabled checkers.
C7_EnabledOnceInOrder ==
    (op = "moderate_content" /\ pc # "raised") =>
        calls = SelectSeq(SubSeq(Pipeline, 1, StagesBefore(pc)), EnabledMethod)

\* All four checkers ran although the first one flagged.
C7_Witness ==
    /\ TextDone
    /\ calls = Pipeline
    /\ ret["purgomalum"] = "False"
    /\ ret["sightengine_text"] = "True"

\* The credentials a checker method needs are configured.
MethodConfigured(m) ==
    CASE m = "purgomalum" -> TRUE
      [] m = "moderatecontent" -> Configured(settings.moderatecontent_api_key)
      [] m = "openai_moderation" -> Configured(settings.openai_api_key)
      [] m = "sightengine_text" -> SightengineConfigured

\* C8: a finished moderate_content call invoked the profanity checker, and
\* each other checker exactly when its credentials are configured; a checker
\* without its credentials is never invoked and never in flagged_by.
C8_InvokedIffConfigured ==
    op = "moderate_content" =>
        /\ pc = "done" =>
             \A m \in Range(Pipeline) : m \in Range(calls) <=> MethodConfigured(m)
        /\ \A m \in Range(Pipeline) :
             ~MethodConfigured(m) =>
                m \notin Range(calls) /\ Name(m) \notin Range(flagged_by)

\* Sightengine has its API user but an empty secret: it is not invoked,
\* while OpenAI, configured, is and flags.
C8_Witness ==
    /\ TextDone
    /\ settings.sightengine_api_user = Str("key")
    /\ settings.sightengine_api_secret = Str("")
    /\ settings.moderatecontent_api_key = NoneStr
    /\ calls = <<"purgomalum", "openai_moderation">>
    /\ verdict.flagged_by = <<"OpenAI">>

----------------------------------------------------------------------------
(* Image moderation *)

\* C9: without the Sightengine credentials moderate_image invokes no checker
\* and returns is_safe = true, flagged_by = [] and an informational reason.
C9_ImagePassesWithoutVendor ==
    (op = "moderate_image" /\ ~SightengineConfigured) =>
        /\ calls = <<>>
        /\ pc = "done" =>
             /\ verdict.is_safe
             /\ verdict.flagged_by = <<>>
             /\ verdict.reason.some /\ verdict.reason.s # ""

\* moderate_image returned with the API user set and the secret unset.
C9_Witness ==
    /\ ImageDone
    /\ settings.sightengine_api_user = Str("key")
    /\ settings.sightengine_api_secret = NoneStr
    /\ verdict.is_safe

\* The number a well-typed body gives for a score: 0 when the key is absent.
ScoreOf(score) == IF score.t = "number" THEN score.n ELSE 0

\* Sightengine answered 200 with a body whose scores are numbers.
SuccessfulImageResponse ==
    /\ http.kind = "response" /\ http.status = 200
    /\ http.json \in SightengineImageScored

\* Some category's score is strictly above its threshold (in tenths).
SomeScoreExceeds ==
    \/ ScoreOf(http.json.sexual_activity) > 5
    \/ ScoreOf(http.json.sexual_display) > 5
    \/ ScoreOf(http.json.weapon) > 7
    \/ ScoreOf(http.json.offensive_prob) > 6
    \/ ScoreOf(http.json.gore_prob) > 5

\* C10: with Sightengine configured and a successful response, moderate_image
\* returns is_safe = false with flagged_by = ["Sightengine"] when some score
\* is strictly above its threshold, and is_safe = true with an empty
\* flagged_by otherwise.
C10_ImageFlaggedIffScoreExceeds ==
    (ImageDone /\ SightengineConfigured /\ SuccessfulImageResponse) =>
        IF SomeScoreExceeds
        THEN ~verdict.is_safe /\ verdict.flagged_by = <<"Sightengine">>
        ELSE verdict.is_safe /\ verdict.flagged_by = <<>>

\* Only the last category exceeds its threshold; the weapon score equals its
\* own.
C10_Witness ==
    /\ ImageDone /\ SightengineConfigured /\ SuccessfulImageResponse
    /\ http.json.gore_prob = Num(6)
    /\ http.json.weapon = Num(7)
    /\ http.json.offensive_prob = Num(6)
    /\ http.json.sexual_activity = Num(5)
    /\ http.json.sexual_display = Num(4)
    /\ ~verdict.is_safe

\* A score key holds a number or is absent.
WellTypedScore(score) == score.t \in {"number", Missing}

\* A nested category object is an object or absent.
WellTypedObject(o) == o = Missing \/ IsDict(o)

\* The categories in the order of the checks: 1 sexual, 2 weapons,
\* 3 offensive, 4 gore.
Categories == 1..4

\* The category's fields can be compared with its threshold.
CategoryWellTyped(j, c) ==
    CASE c = 1 -> /\ WellTypedObject(j.nudity)
                  /\ WellTypedScore(j.sexual_activity)
                  /\ (ScoreOf(j.sexual_activity) > 5 \/ WellTypedScore(j.sexual_display))
      [] c = 2 -> WellTypedScore(j.weapon)
      [] c = 3 -> WellTypedObject(j.offensive) /\ WellTypedScore(j.offensive_prob)
      [] c = 4 -> WellTypedObject(j.gore) /\ WellTypedScore(j.gore_prob)

\* The category's score is strictly above its threshold (in tenths).
CategoryExceeds(j, c) ==
    CASE c = 1 -> ScoreOf(j.sexual_activity) > 5 \/ ScoreOf(j.sexual_display) > 5
      [] c = 2 -> ScoreOf(j.weapon) > 7
      [] c = 3 -> ScoreOf(j.offensive_prob) > 6
      [] c = 4 -> ScoreOf(j.gore_prob) > 5

\* c is the first category that triggers: every category before it was
\* evaluated and stayed below its threshold.
FirstTriggered(j, c) ==
    /\ \A b \in 1..(c - 1) : CategoryWellTyped(j, b) /\ ~CategoryExceeds(j, b)
    /\ CategoryWellTyped(j, c) /\ CategoryExceeds(j, c)

CategoryMessage(c) ==
    CASE c = 1 -> "Imagen contiene contenido sexual o desnudez inapropiada"
      [] c = 2 -> "Imagen contiene armas"
      [] c = 3 -> "Imagen contiene contenido ofensivo"
      [] c = 4 -> "Imagen contiene contenido violento o gore"

ImageAnswered200 ==
    http.kind = "response" /\ http.status = 200 /\ IsDict(http.json.top)

\* C11: when the image check gets a 200 answer, the verdict of moderate_image
\* carries the message of the first category, in the order sexual, weapons,
\* offensive, gore, whose score exceeds its threshold; whatever the later
\* categories hold (higher scores, values of another type) does not change
\* the verdict.
C11_FirstCategoryDecides ==
    (ImageDone /\ SightengineConfigured /\ ImageAnswered200) =>
        \A c \in Categories :
            FirstTriggered(http.json, c) =>
                verdict = ModerationResult(FALSE, Str(CategoryMessage(c)),
                                           <<"Sightengine">>)

\* Weapons, offensive and gore exceed together, nudity does not.
C11_Witness ==
    /\ ImageDone /\ SightengineConfigured /\ SuccessfulImageResponse
    /\ ~CategoryExceeds(http.json, 1)
    /\ CategoryExceeds(http.json, 2)
    /\ CategoryExceeds(http.json, 3)
    /\ CategoryExceeds(http.json, 4)
    /\ verdict.reason = Str("Imagen contiene armas")

\* The image check did not get a usable answer: the request failed, the
\* status is not 200, the body is not a JSON object, or a category holds a
\* value of the wrong type.
ImageVendorFailure ==
    \/ NetworkFailure(http)
    \/ http.kind = "response" /\ http.status # 200
    \/ http.kind = "response" /\ http.status = 200 /\ ~IsDict(http.json.top)
    \/ /\ ImageAnswered200
       /\ \E c \in Categories : ~CategoryWellTyped(http.json, c)
       /\ \A c \in Categories : ~FirstTriggered(http.json, c)

\* C12: with Sightengine configured, a network error, a timeout, a non-200
\* status or an unparsable or ill-typed answer of the image check makes
\* moderate_image return is_safe = true with an empty flagged_by.
C12_ImageFailureReportsSafe ==
    (ImageDone /\ SightengineConfigured /\ ImageVendorFailure) =>
        verdict.is_safe /\ verdict.flagged_by = <<>>

----------------------------------------------------------------------------
(* Post creation *)

PostEndpoints == {"create_post", "create_post_with_image"}

\* The positions of the events named ev in the record of the request.
EventsNamed(ev) == {i \in 1..Len(events) : events[i].ev = ev}

\* moderate_content returned this verdict to the request being served.
TextVerdict(is_safe) ==
    /\ request.endpoint \in PostEndpoints
    /\ \E i \in EventsNamed("moderate_content") : events[i].is_safe = is_safe
    /\ locals.moderation_result.is_safe = is_safe

\* C13: create_post and create_post_with_image write a post only when
\* moderate_content has returned is_safe = true to the request; once it has
\* returned is_safe = false no post is written and the request is answered
\* with 400.
C13_PostOnlyAfterSafeText ==
    [][/\ posts' # posts => TextVerdict(TRUE)
       /\ TextVerdict(FALSE)' =>
            /\ posts' = posts
            /\ hpc' = "responded" /\ response' = 400]_vars

\* create_post answered 201 after a safe verdict and wrote its post.
C13_Witness ==
    /\ request.endpoint = "create_post" /\ hpc = "responded" /\ response = 201
    /\ TextVerdict(TRUE)
    /\ \E p \in posts : p.post_id = locals.post_id

\* C14: every post written with an image_url was written by a request in
\* which moderate_image was called on that URL and returned is_safe = true,
\* by create_post as by create_post_with_image.
C14_ImagePostsModerated ==
    \A p \in posts :
        (p.post_id = locals.post_id /\ p.image_url.some) =>
            \E i \in EventsNamed("moderate_image") :
                events[i].url = p.image_url /\ events[i].is_safe

\* C15: in create_post_with_image the upload is preceded by a safe verdict
\* of moderate_content, moderate_image is preceded by the upload of the URL
\* it is called on, and a request whose text was rejected did nothing but
\* call moderate_content: no upload, no image moderation, no post.
C15_UploadAfterTextImageAfterUpload ==
    request.endpoint = "create_post_with_image" =>
        /\ \A i \in EventsNamed("upload_post_image") :
              \E j \in 1..(i - 1) : events[j] = Event("moderate_content", NoneUrl, TRUE)
        /\ \A i \in EventsNamed("moderate_image") :
              \E j \in 1..(i - 1) :
                  /\ events[j].ev = "upload_post_image"
                  /\ events[j].url.some /\ events[j].url = events[i].url
        /\ TextVerdict(FALSE) =>
              /\ events = <<Event("moderate_content", NoneUrl, FALSE)>>
              /\ locals.image_url = NoneUrl /\ locals.post_id = 0

\* create_post_with_image answered 400 to a text that was rejected.
C15_Witness ==
    /\ request.endpoint = "create_post_with_image"
    /\ hpc = "responded" /\ response = 400
    /\ TextVerdict(FALSE)

\* moderate_image returned is_safe = false on the uploaded image.
ImageRejected ==
    /\ request.endpoint = "create_post_with_image"
    /\ \E i \in EventsNamed("moderate_image") : ~events[i].is_safe
    /\ ~locals.image_moderation.is_safe

\* C16: when moderate_image rejects the uploaded image, the request is
\* answered with 400 only after delete_image was called on exactly the URL
\* upload_post_image returned, and no post refers to that image.
C16_RejectedImageDeleted ==
    ImageRejected =>
        /\ \A p \in posts : p.image_url # locals.image_url
        /\ EventsNamed("posts.set") = {}
        /\ response \in {0, 400}
        /\ response = 400 =>
             \E u \in {locals.image_url} :
                 /\ u.some
                 /\ events = <<Event("moderate_content", NoneUrl, TRUE),
                               Event("upload_post_image", u, FALSE),
                               Event("moderate_image", u, FALSE),
                               Event("delete_image", u, FALSE)>>

\* The image was rejected, delete_image failed, the request got its 400.
C16_Witness ==
    /\ ImageRejected /\ hpc = "responded" /\ response = 400
    /\ blobs # {}

\* The request has a token verify_token refuses, a file that is not of an
\* image type, or a file of more than 5 MB.
InvalidUpload ==
    /\ request.endpoint = "create_post_with_image"
    /\ \/ request.token \in token_blacklist
       \/ request.token \notin {Jwt(u) : u \in Uids}
       \/ ~request.content_type.some
       \/ ~StartsWith(request.content_type.s, <<"i", "m", "a", "g", "e", "/">>)
       \/ request.size > 5 * 1024 * 1024

\* C17: a create_post_with_image request with an invalid token, a file that
\* is not of an image content type or a file larger than 5 MB is rejected
\* before moderate_content: no checker is called, nothing is uploaded, no
\* post is written.
C17_InvalidUploadRejectedEarly ==
    InvalidUpload =>
        /\ events = <<>>
        /\ hpc \in {"verify_token", "validate_image", "responded"}
        /\ hpc = "responded" => response \in {400, 401, 500}
        /\ locals.image_url = NoneUrl /\ locals.post_id = 0

\* A valid token and an image type, one byte above the limit: 400.
C17_Witness ==
    /\ InvalidUpload /\ hpc = "responded" /\ response = 400
    /\ request.token = Jwt("u1")
    /\ request.content_type = ContentType(ImagePng)
    /\ request.size = MAX_IMAGE_BYTES + 1

----------------------------------------------------------------------------
(* Concurrent moderation *)

\* The verdict the call would return made alone with the same answers of
\* the vendors.
VerdictAlone(c) ==
    IF callers[c].op = "moderate_content"
    THEN moderate_content(service, callers[c].answers).value
    ELSE moderate_image(service, callers[c].answers["sightengine_image"]).value

\* C18: calls of the moderation service made at the same time do not affect
\* each other: whatever the interleaving, the verdict each one returns is the
\* verdict it returns alone with the same answers of the checkers.
C18_ConcurrentCallsIndependent ==
    \A c \in Callers :
        callers[c].pc = "done" => callers[c].verdict = VerdictAlone(c)

\* Both calls are done; one was flagged by the first and the last checker,
\* the other, an image call, passed.
C18_Witness ==
    /\ \A c \in Callers : callers[c].pc = "done"
    /\ callers["a"].op = "moderate_content"
    /\ callers["a"].verdict.flagged_by = <<"PurgoMalum", "Sightengine">>
    /\ callers["b"].op = "moderate_image"
    /\ callers["b"].verdict.is_safe /\ callers["b"].verdict.flagged_by = <<>>
    /\ callers["b"].answers["sightengine_image"].kind = "response"

----------------------------------------------------------------------------
(* Likes *)

\* C19: the likes collection never holds two like documents of the same
\* user for the same post, also when like_post requests of one user are
\* served at the same time.
C19_OneLikePerUserAndPost ==
    \A l1 \in likes : \A l2 \in likes :
        (l1.user_id = l2.user_id /\ l1.post_id = l2.post_id) => l1 = l2

\* No like or unlike request is being served.
NoLikeRequestInFlight == \A w \in Workers : workers[w].lpc \in {"idle", "responded"}

\* C20: whenever no like or unlike request is in flight, the likes_count of
\* every post equals the number of like documents that name the post.
C20_LikesCountMatchesDocuments ==
    NoLikeRequestInFlight =>
        \A q \in posts :
            q.likes_count = Cardinality({l \in likes : l.post_id = q.post_id})

----------------------------------------------------------------------------
(* Reports *)

\* C21: the reports collection holds at most one report for each pair of
\* reporting user and post, also when create_report requests of one user
\* for one post are served side by side.
C21_OneReportPerUserAndPost ==
    \A r1, r2 \in reports :
        (r1.post_id = r2.post_id /\ r1.reported_by = r2.reported_by) => r1 = r2

\* An update_report_status request that verify_token let through and that
\* asks for a status other than reviewed and resolved.
BadStatusRequest(a) ==
    /\ agents[a].op = "update_report_status"
    /\ agents[a].user_id # "-"
    /\ agents[a].arg \notin {"reviewed", "resolved"}

\* C26: a report is created with status pending; a report whose status is
\* no longer pending never becomes pending again; an authenticated request
\* to set another status than reviewed or resolved is answered 400 at once
\* and changes no report.
C26_StatusNeverBackToPending ==
    [][ /\ \A r \in reports' :
             (\A o \in reports : o.report_id # r.report_id) => r.status = "pending"
        /\ \A o \in reports : \E r \in reports' : r.report_id = o.report_id
        /\ \A o \in reports, r \in reports' :
             (r.report_id = o.report_id /\ o.status # "pending") => r.status # "pending"
        /\ \A a \in Workers :
             BadStatusRequest(a)' =>
                /\ agents'[a].at = "responded"
                /\ agents'[a].response = 400
                /\ (agents'[a] # agents[a] => reports' = reports)
      ]_vars

\* A report was reviewed, and a later request to set it back to pending was
\* refused.
C26_Witness ==
    /\ \E r \in reports : r.status \in {"reviewed", "resolved"}
    /\ \E a \in Workers :
         /\ BadStatusRequest(a)
         /\ agents[a].arg = "pending"
         /\ agents[a].response = 400
         /\ \E r \in reports : r.report_id = agents[a].id /\ r.status # "pending"

----------------------------------------------------------------------------
(* Comments *)

NoCommentRequestInFlight == \A a \in Workers : Free(a)

\* C25: whenever no comment request is in flight, the comments_count of
\* every post equals the number of its comments that are not marked
\* is_deleted, whatever the interleaving of create_comment and
\* delete_comment requests was.
C25_CommentsCountMatchesDocuments ==
    NoCommentRequestInFlight =>
        \A q \in posts :
            q.comments_count =
                Cardinality({c \in comments : c.post_id = q.post_id /\ ~c.is_deleted})

----------------------------------------------------------------------------
(* Deleting posts *)

\* The post with this id, as a set.
PostNow(post_id) == {q \in posts : q.post_id = post_id}

\* Process a answers its request in this step.
Answers(a) == agents[a].at \notin {"idle", "responded"} /\ agents'[a].at = "responded"

\* C27: delete_post changes a post only for its creator, and then only by
\* setting is_deleted, the post being kept; another authenticated user is
\* answered 403 (500 when Firestore fails) and the post stays as it was;
\* once a post is marked is_deleted, get_post_by_id answers 404 (500 when
\* Firestore fails), never the post, and get_posts_feed does not list it.
C27_OnlyCreatorSoftDeletes ==
    [][ /\ \A q \in posts : \E r \in posts' : r.post_id = q.post_id
        /\ \A q \in posts : q.is_deleted => q \in posts'
        /\ \A q \in posts : q \notin posts' =>
             /\ [q EXCEPT !.is_deleted = TRUE] \in posts'
             /\ \E a \in Workers :
                  /\ Answers(a)
                  /\ agents[a].op = "delete_post"
                  /\ agents[a].id = q.post_id
                  /\ agents[a].user_id = q.user_id
                  /\ agents'[a].response = 200
        /\ \A a \in Workers :
             (/\ Answers(a)
              /\ agents[a].op = "delete_post"
              /\ \E q \in PostNow(agents[a].id) : q.user_id # agents[a].user_id)
             => /\ agents'[a].response \in {403, 500}
                /\ posts' = posts
        /\ \A a \in Workers :
             (/\ Answers(a)
              /\ agents[a].op = "get_post_by_id"
              /\ \E q \in PostNow(agents[a].id) : q.is_deleted)
             => /\ agents'[a].response \in {404, 500}
                /\ agents'[a].found = {}
        /\ \A a \in Workers :
             (Answers(a) /\ agents[a].op = "get_posts_feed")
             => \A q \in agents'[a].found : q \in posts /\ ~q.is_deleted
      ]_vars

\* u1's post is marked deleted and kept, a delete_post of another user was
\* answered 403, and a get_post_by_id for the deleted post was answered 404.
C27_Witness ==
    /\ \E q \in posts : q.is_deleted
    /\ \E a \in Workers :
         /\ agents[a].op = "delete_post"
         /\ agents[a].response = 403
         /\ \E q \in PostNow(agents[a].id) : q.user_id # agents[a].user_id
    /\ \E a \in Workers :
         /\ agents[a].op = "get_post_by_id"
         /\ agents[a].response = 404
         /\ \E q \in PostNow(agents[a].id) : q.is_deleted

----------------------------------------------------------------------------
(* Tokens and accounts *)

\* The handlers of the account specification that call verify_token.
Authenticated == {"logout", "delete_account", "create_post"}

\* The tokens for which the named handler returned successfully.
TokensOf(handler) == {h.token : h \in {x \in history : x.op = handler}}

\* Process a takes a request of an authenticated handler in this step.
Takes(a) == Free(a) /\ agents'[a] # agents[a] /\ agents'[a].op \in Authenticated

\* C22: once logout has succeeded for a token, every later request that
\* presents the token is refused by verify_token, on whichever process it
\* arrives, and changes no data.
C22_LoggedOutTokenRejected ==
    [][ \A a \in Workers :
          (Takes(a) /\ agents'[a].token \in TokensOf("logout"))
          => /\ agents'[a].user_id = "-"
             /\ agents'[a].response \in {401, 500}
             /\ UNCHANGED <<users, posts, blacklists>>
      ]_vars

\* C23: after delete_account has returned successfully for a user, the
\* user's document is gone, no post carries the user's id, and every
\* process refuses the token the call was made with.
C23_DeletedAccountLeavesNothing ==
    \A t \in TokensOf("delete_account") :
        /\ t.uid \notin users
        /\ \A q \in posts : q.user_id # t.uid
        /\ \A a \in Workers : verify_token(t, blacklists[a]).raised

\* C24: verify_token accepts a token only within jwt_expiration_hours of
\* one of its issues by login.
C24_TokenExpiresAfter24Hours ==
    \A a \in Workers :
        (agents[a].op \in Authenticated /\ agents[a].user_id # "-")
        => \E i \in issued :
              /\ i.token = agents[a].token
              /\ agents[a].hour < i.hour + jwt_expiration_hours

====
